---- MODULE Spec2Model ----
(***************************************************************************)
(* Tournament progression engine of the beach-tennis manager               *)
(* (tournaments/models.py, tournaments/views.py).                          *)
(*                                                                         *)
(* One tournament is modelled.  Rows of a table are kept in a sequence in  *)
(* insertion order, which is the order of their created_at column.         *)
(* Strings the code takes apart (round names, group labels) are pairs      *)
(* <<prefix, number>>:                                                     *)
(*    ""                        <<"", 0>>                                  *)
(*    "Grupo A" .. "Grupo Z"    <<"Grupo", 1>> .. <<"Grupo", 26>>          *)
(*    "Mata-mata - Final", ...  <<"Mata-mata", team_count>>                *)
(*    "Fase de grupos"          <<"Fase de grupos", 0>>                    *)
(* Team ids are 1..MaxTeams and a team's name sorts as its id does.        *)
(* None (a null column) is 0.                                              *)
(***************************************************************************)
EXTENDS Integers, Sequences, FiniteSets, TLC

VARIABLES enrolled_teams, matches, set_scores, grouping_form, team_list, last,
          participants, team_table, tournament_participants, tournament,
          requests, guide

\* The tables behind the pairing operations: the Participant rows (a row's
\* index is its id, and names sort as ids do), the Team rows (likewise), the
\* ids of the participants registered in the tournament in the order of
\* registration, and the tournament's division and category.
roster == <<participants, team_table, tournament_participants, tournament>>

\* The invocations in progress when two requests run side by side: for each,
\* the place it has reached and the values it holds in local variables.  It is
\* empty where every operation runs from start to end on its own.
NoRequests == <<>>

vars == <<enrolled_teams, matches, set_scores, grouping_form, team_list, last,
          participants, team_table, tournament_participants, tournament,
          requests, guide>>

\* ------------------------------------------------------------------ bounds
MaxTeams == 5
MaxKnockoutTeams == 8
MaxRoundTeams == 4
MaxSetNumber == 2
MaxTotalsSets == 3
MaxStandingMatches == 3
MaxQualifierTeams == 4
MaxTeamPlayers == 2
MaxTeamRows == 2
MaxAutoPlayers == 4
MaxGroupedTeams == 53

\* --------------------------------------------------------------- constants
None == 0
NoPoints == -1
TieBreakTarget == 7
AlphabetSize == 26
MinGroupSize == 2
DefaultGroupSize == 3
DefaultQualifiersPerGroup == 2
DefaultSmallGroupQualifiers == 1

Teams == 1..MaxTeams

\* TournamentGroupingForm.group_size: min_value=2, initial=3.
GroupSizes == MinGroupSize..DefaultGroupSize

DefaultGroupingForm ==
    <<DefaultGroupSize, DefaultQualifiersPerGroup, DefaultSmallGroupQualifiers>>

\* ----------------------------------------------------------------- helpers
Range(s) == {s[i] : i \in 1..Len(s)}

Min(a, b) == IF a < b THEN a ELSE b
Max(a, b) == IF a > b THEN a ELSE b

RECURSIVE SeqFilter(_, _)
SeqFilter(s, keep) ==
    IF s = <<>> THEN <<>>
    ELSE IF Head(s) \in keep THEN <<Head(s)>> \o SeqFilter(Tail(s), keep)
    ELSE SeqFilter(Tail(s), keep)

\* Lexicographic order on tuples of integers of one length.
RECURSIVE LexLess(_, _)
LexLess(a, b) ==
    IF a = <<>> THEN FALSE
    ELSE IF Head(a) # Head(b) THEN Head(a) < Head(b)
    ELSE LexLess(Tail(a), Tail(b))

\* The elements of S as a sequence ascending by key[x]; the keys are distinct.
RECURSIVE SortByKey(_, _)
SortByKey(S, key) ==
    IF S = {} THEN <<>>
    ELSE LET m == CHOOSE x \in S : \A y \in S \ {x} : LexLess(key[x], key[y])
         IN  <<m>> \o SortByKey(S \ {m}, key)

\* The element of a set of one element.
Only(S) == CHOOSE x \in S : TRUE

\* Sequences over S without repetition, of length 0..Cardinality(S).
RECURSIVE DistinctSeqs(_)
DistinctSeqs(S) ==
    {<<>>} \cup UNION {{<<x>> \o r : r \in DistinctSeqs(S \ {x})} : x \in S}

\* -------------------------------------------------------------- the tables
NoLabel == <<"", 0>>
GroupLabel(k) == <<"Grupo", k>>
KnockoutPrefix == "Mata-mata"
DefaultRoundName == <<"Fase de grupos", 0>>

StageGroup == "group"
StageKnockout == "knockout"

\* TournamentTeam(tournament, team) with the column defaults.
NewTournamentTeam(t) ==
    [team |-> t, group_label |-> NoLabel, stage |-> StageGroup,
     seed |-> None, is_eliminated |-> FALSE]

\* Match(tournament, round_name, team_one, team_two) with the column defaults.
NewMatch(r, a, b) ==
    [round_name |-> r, team_one |-> a, team_two |-> b, winner |-> None,
     team_one_sets_won |-> 0, team_two_sets_won |-> 0,
     tie_break_played |-> FALSE,
     team_one_point_sequence |-> <<>>, team_two_point_sequence |-> <<>>]

\* What the last operation was, what it was given and what it returned.
\* op: the operation; arg: its argument; ret: the count it returned; error:
\* the message it returned ("" for none); teams: the team list a knockout round
\* was built from; saved: the teams whose enrollment row was written; rows:
\* the list of rows or teams it returned; skipped: the second count an
\* automatic pairing returned.
NoOp ==
    [op |-> "none", arg |-> 0, ret |-> 0, error |-> "", teams |-> <<>>,
     saved |-> {}, rows |-> <<>>, skipped |-> 0]

\* DailyGuide.PairingMode
ModeUndecided == "undecided"
ModeManual == "manual"
ModeRandom == "random"

\* The daily guide ("torneio rapido") with the rows that point to it: its
\* DailyParticipant rows (the names; a row's index is its id), its DailyTeam
\* rows and its DailyMatch rows in insertion order, and its own columns.
\* NoGuide is a guide as DailyGuide.objects.create leaves it, before any
\* participant is added.
NoGuide ==
    [participants |-> <<>>, daily_teams |-> <<>>, matches |-> <<>>,
     pairing_mode |-> ModeUndecided, champion |-> None, runner_up |-> None,
     third_place |-> None, finished_at |-> None]

\* Team.Division and Participant.Gender
DivisionMale == "M"
DivisionFemale == "F"
DivisionMixed == "X"
GenderMale == "M"
GenderFemale == "F"
GenderMixed == "X"

\* Tournament.division defaults to mixed and Tournament.category may be null.
DefaultTournament == [division |-> DivisionMixed, category |-> None]

\* Where the operations read team ids only, the tables behind them are left
\* out of the state.
RosterLeftOut ==
    /\ participants = <<>>
    /\ team_table = <<>>
    /\ tournament_participants = <<>>
    /\ tournament = DefaultTournament

EnrolledIds(es) == {es[i].team : i \in 1..Len(es)}

EntryOf(es, t) == es[CHOOSE i \in 1..Len(es) : es[i].team = t]

\* tournament.matches.filter(round_name=r).filter(Q(a,b) | Q(b,a)).exists()
MatchExists(ms, r, a, b) ==
    \E i \in 1..Len(ms) :
        /\ ms[i].round_name = r
        /\ \/ ms[i].team_one = a /\ ms[i].team_two = b
           \/ ms[i].team_one = b /\ ms[i].team_two = a

\* ------------------------------------------------------------------ groups
TeamName(t) == t

LabelRank(l) == l[2]

\* order_by("group_label", "team__name", "created_at"): row indexes in order.
GroupingOrder(es) ==
    SortByKey(1..Len(es),
              [i \in 1..Len(es) |->
                  <<LabelRank(es[i].group_label), TeamName(es[i].team), i>>])

LabelForPosition(idx, group_size) == GroupLabel((idx \div group_size) + 1)

\* _assign_groups_to_tournament: [entries, updated, saved].  The list is put
\* in order once; pos[i] is the place of row i in it.
AssignGroups(es, group_size) ==
    Only({Only({LET reached(i) == ((pos[i] - 1) \div group_size) < AlphabetSize
                    label(i) == LabelForPosition(pos[i] - 1, group_size)
                    changed == {i \in 1..Len(es) :
                                   reached(i) /\ es[i].group_label # label(i)}
                IN  [entries |-> [i \in 1..Len(es) |->
                                     IF reached(i) /\ es[i].group_label # label(i)
                                     THEN [es[i] EXCEPT !.group_label = label(i)]
                                     ELSE es[i]],
                     updated |-> Cardinality(changed),
                     saved |-> {es[i].team : i \in changed}] :
                   pos \in {[i \in 1..Len(es) |->
                               CHOOSE k \in 1..Len(order) : order[k] = i]}}) :
             order \in {GroupingOrder(es)}})

\* filter(group_label__isnull=False): group_label is a CharField that is never
\* null (its empty value is ""), so the filter keeps every row.
GroupedEntryFilter(e) == TRUE

\* The groups dict: its keys in insertion order.
GroupLabelsInOrder(es) ==
    LET ls == {es[i].group_label : i \in {j \in 1..Len(es) : GroupedEntryFilter(es[j])}}
    IN  SortByKey(ls, [l \in ls |-> <<LabelRank(l)>>])

\* groups[label]: the teams of one label, order_by("group_label", "team__name").
GroupTeams(es, label) ==
    LET ts == {es[i].team : i \in {j \in 1..Len(es) :
                   GroupedEntryFilter(es[j]) /\ es[j].group_label = label}}
    IN  SortByKey(ts, [t \in ts |-> <<TeamName(t)>>])

PairsOf_AdjacentOnly(ts) == [k \in 1..(Len(ts) - 1) |-> <<ts[k], ts[k + 1]>>]

\* for idx in range(len-1): for jdx in range(idx+1, len): (teams[idx], teams[jdx])
PairsOf(ts) ==
    LET P == {p \in (1..Len(ts)) \X (1..Len(ts)) : p[1] < p[2]}
        ord == SortByKey(P, [p \in P |-> p])
    IN  [k \in 1..Len(ord) |-> <<ts[ord[k][1]], ts[ord[k][2]]>>]

\* The (label, team_one, team_two) triples in the order the loops visit them.
RECURSIVE Fixtures(_, _)
Fixtures(es, labels) ==
    IF labels = <<>> THEN <<>>
    ELSE LET ts == GroupTeams(es, Head(labels))
             ps == IF Len(ts) < 2 THEN <<>> ELSE PairsOf(ts)
         IN  [k \in 1..Len(ps) |-> <<Head(labels), ps[k][1], ps[k][2]>>]
             \o Fixtures(es, Tail(labels))

FixtureMissing_NoCheck(ms, r, a, b) == TRUE

\* The existence check before Match.objects.create.
FixtureMissing(ms, r, a, b) == ~MatchExists(ms, r, a, b)

RECURSIVE CreateMissing(_, _)
CreateMissing(ms, fx) ==
    IF fx = <<>> THEN ms
    ELSE LET f == Head(fx)
         IN  IF FixtureMissing(ms, f[1], f[2], f[3])
             THEN CreateMissing(Append(ms, NewMatch(f[1], f[2], f[3])), Tail(fx))
             ELSE CreateMissing(ms, Tail(fx))

\* _generate_group_round_robin_matches: the matches table afterwards; the
\* function returns the number of rows added.
GenerateGroupRoundRobin(es, ms) == CreateMissing(ms, Fixtures(es, GroupLabelsInOrder(es)))

\* ------------------------------------------------- actions: enrollment, groups
\* TournamentTeam.objects.get_or_create(tournament, team) for a team not yet in.
EnrollTeam(t) ==
    /\ t \notin EnrolledIds(enrolled_teams)
    /\ enrolled_teams' = Append(enrolled_teams, NewTournamentTeam(t))
    /\ last' = [NoOp EXCEPT !.op = "enroll", !.arg = t]
    /\ UNCHANGED roster
    /\ UNCHANGED <<requests, guide>>
    /\ UNCHANGED <<matches, set_scores, grouping_form, team_list>>

AssignGroupsCall(group_size) ==
    \E r \in {AssignGroups(enrolled_teams, group_size)} :
        /\ enrolled_teams' = r.entries
        /\ last' = [NoOp EXCEPT !.op = "assign", !.arg = group_size,
                                !.ret = IF enrolled_teams = <<>> THEN 0 ELSE r.updated,
                                !.saved = r.saved]
        /\ UNCHANGED roster
        /\ UNCHANGED <<requests, guide>>
        /\ UNCHANGED <<matches, set_scores, grouping_form, team_list>>

GenerateCall ==
    LET ms == GenerateGroupRoundRobin(enrolled_teams, matches)
    IN  /\ matches' = ms
        /\ last' = [NoOp EXCEPT !.op = "generate", !.ret = Len(ms) - Len(matches)]
        /\ UNCHANGED roster
        /\ UNCHANGED <<requests, guide>>
        /\ UNCHANGED <<enrolled_teams, set_scores, grouping_form, team_list>>


InitEmpty ==
    /\ enrolled_teams = <<>>
    /\ matches = <<>>
    /\ set_scores = {}
    /\ grouping_form = DefaultGroupingForm
    /\ team_list = <<>>
    /\ last = NoOp
    /\ requests = NoRequests
    /\ guide = NoGuide
    /\ RosterLeftOut

\* The team enrolled next: the last, by name, of those not yet in, so that the
\* order of enrollment is the reverse of the order by name.
NextToEnroll ==
    LET waiting == Teams \ EnrolledIds(enrolled_teams)
    IN  {t \in waiting : \A u \in waiting : t >= u}

NextGroup ==
    \/ \E t \in NextToEnroll : EnrollTeam(t)
    \/ \E g \in GroupSizes : AssignGroupsCall(g)
    \/ GenerateCall

SpecGroup == InitEmpty /\ [][NextGroup]_vars

\* -------------------------------------------- group assignment on its own
\* A tournament with n teams enrolled in the order of their names, none in a
\* group.
Enrolled(n) == [i \in 1..n |-> NewTournamentTeam(i)]

InitAssign ==
    /\ \E n \in 0..MaxGroupedTeams : enrolled_teams = Enrolled(n)
    /\ matches = <<>>
    /\ set_scores = {}
    /\ grouping_form = DefaultGroupingForm
    /\ team_list = <<>>
    /\ last = NoOp
    /\ requests = NoRequests
    /\ guide = NoGuide
    /\ RosterLeftOut

NextAssign == \E g \in GroupSizes : AssignGroupsCall(g)

SpecAssign == InitAssign /\ [][NextAssign]_vars

\* --------------------------------------------------------------- standings
\* Match.Meta.ordering = ("tournament", "round_name", "created_at"): the key of
\* a round name in string order.  "" < "Fase de grupos" < "Grupo A" < ... <
\* "Mata-mata (N duplas)" < "Mata-mata - ..."; the named rounds sort as
\* "16 avos de final" < "Final" < "Oitavas de final" < "Quartas de final" <
\* "Semifinais"; a number N sorts as its decimal digits do.
NamedRoundRank(n) ==
    CASE n = 32 -> 1 [] n = 2 -> 2 [] n = 16 -> 3 [] n = 8 -> 4 [] n = 4 -> 5
      [] OTHER -> 0

RoundNameKey(r) ==
    CASE r[1] = "" -> <<0, 0, 0>>
      [] r[1] = "Fase de grupos" -> <<1, 0, 0>>
      [] r[1] = "Grupo" -> <<2, r[2], 0>>
      [] OTHER ->
           IF NamedRoundRank(r[2]) # 0 THEN <<4, NamedRoundRank(r[2]), 0>>
           ELSE IF r[2] < 10 THEN <<3, r[2], -1>>
           ELSE <<3, r[2] \div 10, r[2] % 10>>

\* self.matches in the default ordering: match indexes.
DefaultMatchOrder(ms) ==
    SortByKey(1..Len(ms),
              [i \in 1..Len(ms) |-> RoundNameKey(ms[i].round_name) \o <<i>>])

RECURSIVE SumOver(_, _)
SumOver(S, f) ==
    IF S = {} THEN 0
    ELSE LET x == CHOOSE y \in S : TRUE IN f[x] + SumOver(S \ {x}, f)

\* The keys of the standings dict in insertion order: teams as first seen.
RECURSIVE TeamsAsSeen(_, _, _)
TeamsAsSeen(ms, order, acc) ==
    IF order = <<>> THEN acc
    ELSE LET m == ms[Head(order)]
             a1 == IF m.team_one \in Range(acc) THEN acc ELSE Append(acc, m.team_one)
             a2 == IF m.team_two \in Range(a1) THEN a1 ELSE Append(a1, m.team_two)
         IN  TeamsAsSeen(ms, Tail(order), a2)

\* if match.winner_id == team.id: wins += 1  else: losses += 1
CountsAsLoss(m, t) == m.winner # t

\* Match.POINT_VALUES.get(str(value).upper(), 0) of a stored point.
PointValue(v) ==
    CASE v = "15" -> 15 [] v = "30" -> 30 [] v = "40" -> 40 [] v = "45" -> 45
      [] v = "GAME" -> 60 [] OTHER -> 0

\* Match.accumulated_points of a point sequence.
RECURSIVE AccumulatedPoints(_)
AccumulatedPoints(sequence) ==
    IF sequence = <<>> THEN 0
    ELSE PointValue(Head(sequence)) + AccumulatedPoints(Tail(sequence))

\* One row of build_standings for team t.
StandingsRow(ms, t) ==
    LET mine == {i \in 1..Len(ms) : t \in {ms[i].team_one, ms[i].team_two}}
        own == [i \in mine |-> IF ms[i].team_one = t THEN ms[i].team_one_sets_won
                                                     ELSE ms[i].team_two_sets_won]
        opp == [i \in mine |-> IF ms[i].team_one = t THEN ms[i].team_two_sets_won
                                                     ELSE ms[i].team_one_sets_won]
        pts == [i \in mine |->
                   IF ms[i].team_one = t
                   THEN AccumulatedPoints(ms[i].team_one_point_sequence)
                   ELSE AccumulatedPoints(ms[i].team_two_point_sequence)]
        gf == SumOver(mine, own)
        ga == SumOver(mine, opp)
    IN  [team |-> t,
         matches |-> Cardinality(mine),
         wins |-> Cardinality({i \in mine : ms[i].winner = t}),
         losses |-> Cardinality({i \in mine : CountsAsLoss(ms[i], t)}),
         sets |-> gf,
         points |-> SumOver(mine, pts),
         games_for |-> gf,
         games_against |-> ga,
         game_balance |-> gf - ga]

\* sorted(rows, key, reverse=True): descending by key, and rows with equal keys
\* stay in their order (the sort is stable).
SortRowsDescending(rows, keys) ==
    LET idx == SortByKey(1..Len(rows),
                  [i \in 1..Len(rows) |->
                      [k \in 1..Len(keys[i]) |-> 0 - keys[i][k]] \o <<i>>])
    IN  [k \in 1..Len(rows) |-> rows[idx[k]]]

StandingsKey_GamesForFirst(row) == <<row.games_for, row.wins, row.game_balance>>

StandingsKey(row) == <<row.wins, row.game_balance, row.games_for>>

\* Tournament.build_standings
BuildStandings(ms) ==
    LET seen == TeamsAsSeen(ms, DefaultMatchOrder(ms), <<>>)
        rows == [k \in 1..Len(seen) |-> StandingsRow(ms, seen[k])]
    IN  SortRowsDescending(rows, [k \in 1..Len(rows) |-> StandingsKey(rows[k])])

\* -------------------------------------------------------------- qualifiers
QualifierKey(row) == <<row.wins, row.games_for, row.game_balance>>

\* The slots of a group, had the quota of small groups been left out.
GroupSlots_AlwaysDefault(size, default_slots, small_group_slots, expected_group_size) ==
    Max(1, Min(default_slots, size))

\* slots = default_slots, or small_group_slots for a group below the expected
\* size; then max(1, min(slots, len(group_data))).
GroupSlots(size, default_slots, small_group_slots, expected_group_size) ==
    LET slots == IF expected_group_size # 0 /\ size < expected_group_size
                 THEN small_group_slots ELSE default_slots
    IN  Max(1, Min(slots, size))

RECURSIVE SeqSelect(_, _)
SeqSelect(rows, keep) ==
    IF rows = <<>> THEN <<>>
    ELSE IF Head(rows).team \in keep THEN <<Head(rows)>> \o SeqSelect(Tail(rows), keep)
    ELSE SeqSelect(Tail(rows), keep)

RECURSIVE QualifiersOfGroups(_, _, _, _, _, _)
QualifiersOfGroups(es, rows, labels, default_slots, small_group_slots, expected_group_size) ==
    IF labels = <<>> THEN <<>>
    ELSE LET members == {es[i].team : i \in {j \in 1..Len(es) : es[j].group_label = Head(labels)}}
             group_rows == SeqSelect(rows, members)
             group_data == SortRowsDescending(group_rows,
                               [k \in 1..Len(group_rows) |-> QualifierKey(group_rows[k])])
             slots == GroupSlots(Len(group_data), default_slots, small_group_slots,
                                 expected_group_size)
         IN  [k \in 1..slots |-> group_data[k].team]
             \o QualifiersOfGroups(es, rows, Tail(labels), default_slots,
                                   small_group_slots, expected_group_size)

\* The qualifiers, had they been merged into one list by standings rank.
CollectGroupQualifiers_MergedByRank(es, ms, default_slots, small_group_slots, expected_group_size) ==
    LET labelled == {es[i].team : i \in {j \in 1..Len(es) : es[j].group_label # NoLabel}}
        rows == SeqSelect(BuildStandings(ms), labelled)
        ls == {EntryOf(es, rows[k].team).group_label : k \in 1..Len(rows)}
        labels == SortByKey(ls, [l \in ls |-> <<LabelRank(l)>>])
        chosen == QualifiersOfGroups(es, rows, labels, default_slots,
                                     small_group_slots, expected_group_size)
        merged == SeqSelect(rows, Range(chosen))
    IN  [k \in 1..Len(merged) |-> merged[k].team]

\* _collect_group_qualifiers
CollectGroupQualifiers(es, ms, default_slots, small_group_slots, expected_group_size) ==
    LET labelled == {es[i].team : i \in {j \in 1..Len(es) : es[j].group_label # NoLabel}}
        rows == SeqSelect(BuildStandings(ms), labelled)
        ls == {EntryOf(es, rows[k].team).group_label : k \in 1..Len(rows)}
        labels == SortByKey(ls, [l \in ls |-> <<LabelRank(l)>>])
    IN  QualifiersOfGroups(es, rows, labels, default_slots, small_group_slots,
                           expected_group_size)

\* ---------------------------------------------------------------- knockout
\* _round_name_for_team_count: one name per team count.
RoundNameForTeamCount(team_count) == <<KnockoutPrefix, team_count>>

IsKnockoutRound(r) == r[1] = KnockoutPrefix

PairingMissing_NoCheck(ms, r, a, b) == TRUE

\* The existence check before Match.objects.create in _create_knockout_round.
PairingMissing(ms, r, a, b) == ~MatchExists(ms, r, a, b)

\* for idx in range(0, team_count, 2): teams[idx] against teams[idx + 1]
RECURSIVE CreatePairings(_, _, _)
RECURSIVE CreatePairings_FirstAgainstLast(_, _, _)
CreatePairings_FirstAgainstLast(ms, r, teams) ==
    IF Len(teams) < 2 THEN ms
    ELSE CreatePairings_FirstAgainstLast(
             IF ~MatchExists(ms, r, teams[1], teams[Len(teams)])
             THEN Append(ms, NewMatch(r, teams[1], teams[Len(teams)]))
             ELSE ms,
             r, SubSeq(teams, 2, Len(teams) - 1))

CreatePairings(ms, r, teams) ==
    IF Len(teams) < 2 THEN ms
    ELSE IF PairingMissing(ms, r, teams[1], teams[2])
         THEN CreatePairings(Append(ms, NewMatch(r, teams[1], teams[2])), r,
                             SubSeq(teams, 3, Len(teams)))
         ELSE CreatePairings(ms, r, SubSeq(teams, 3, Len(teams)))

StampEntry_KeepsStage(e, seed) == [e EXCEPT !.seed = seed]

StampEntry_ZeroBased(e, seed) == [e EXCEPT !.stage = StageKnockout, !.seed = seed - 1]

\* The enrollment of the team at position seed of the list (1-based) after the
\* stamping loop; e is its row before (a new row when the team had none).
StampEntry(e, seed) == [e EXCEPT !.stage = StageKnockout, !.seed = seed]

\* for seed, team in enumerate(teams, start=1): rows after the loop, and the
\* teams whose row was saved.  The teams of the list are distinct.
StampTeams(es, teams) ==
    LET pos(t) == CHOOSE k \in 1..Len(teams) : teams[k] = t
        listed == Range(teams)
        missing == SeqFilter(teams, listed \ EnrolledIds(es))
        all == es \o [k \in 1..Len(missing) |-> NewTournamentTeam(missing[k])]
        after == [i \in 1..Len(all) |->
                     IF all[i].team \in listed
                     THEN StampEntry(all[i], pos(all[i].team))
                     ELSE all[i]]
    IN  [entries |-> after,
         saved |-> {all[i].team : i \in {j \in 1..Len(all) : after[j] # all[j]}}]

DistinctTeams_Unchecked(a, b) == TRUE

\* The check constraint match_distinct_teams: ~Q(team_one=F("team_two")).
DistinctTeams(a, b) == a # b

\* _create_knockout_round: [matches, entries, created, saved, error].  A pair
\* of one team with itself fails the check constraint at Match.objects.create:
\* the IntegrityError ends the call there, the matches created before it stay
\* (no transaction encloses the loop) and the stamping loop is not reached.
CreateKnockoutRound(es, ms, teams) ==
    IF Len(teams) < 2 \/ Len(teams) % 2 # 0
    THEN [matches |-> ms, entries |-> es, created |-> 0, saved |-> {}, error |-> ""]
    ELSE LET refused == {k \in 1..(Len(teams) \div 2) :
                            ~DistinctTeams(teams[2 * k - 1], teams[2 * k])}
             upto == IF refused = {} THEN Len(teams)
                     ELSE 2 * ((CHOOSE k \in refused : \A j \in refused : k <= j) - 1)
             after == CreatePairings(ms, RoundNameForTeamCount(Len(teams)),
                                     SubSeq(teams, 1, upto))
             st == StampTeams(es, teams)
         IN  IF refused = {}
             THEN [matches |-> after, entries |-> st.entries,
                   created |-> Len(after) - Len(ms), saved |-> st.saved, error |-> ""]
             ELSE [matches |-> after, entries |-> es,
                   created |-> Len(after) - Len(ms), saved |-> {},
                   error |-> "IntegrityError"]

RECURSIVE BitAnd(_, _)
BitAnd(a, b) ==
    IF a = 0 \/ b = 0 THEN 0
    ELSE (a % 2) * (b % 2) + 2 * BitAnd(a \div 2, b \div 2)

NotPowerOfTwo_ParityOnly(n) == n % 2 # 0

\* len(qualifiers) & (len(qualifiers) - 1) != 0
NotPowerOfTwo(n) == BitAnd(n, n - 1) # 0

KnockoutMatches(ms) == {i \in 1..Len(ms) : IsKnockoutRound(ms[i].round_name)}

LatestRound_Oldest(ms) ==
    LET ks == KnockoutMatches(ms)
    IN  ms[CHOOSE i \in ks : \A j \in ks : i <= j].round_name

\* knockout_matches.order_by("-created_at").values_list("round_name").first()
LatestRound(ms) ==
    LET ks == KnockoutMatches(ms)
    IN  ms[CHOOSE i \in ks : \A j \in ks : j <= i].round_name

\* knockout_matches.filter(round_name=latest_round).order_by("created_at")
CurrentRoundMatches(ms) ==
    LET r == LatestRound(ms)
        cur == {i \in KnockoutMatches(ms) : ms[i].round_name = r}
    IN  SortByKey(cur, [i \in cur |-> <<i>>])

Winners_NewestFirst(ms) ==
    LET cur == CurrentRoundMatches(ms)
        won == {k \in 1..Len(cur) : ms[cur[k]].winner # None}
        ord == SortByKey(won, [k \in won |-> <<0 - k>>])
    IN  [k \in 1..Len(ord) |-> ms[cur[ord[k]]].winner]

\* [match.winner for match in current_round_matches if match.winner]
Winners(ms) ==
    LET cur == CurrentRoundMatches(ms)
        won == {k \in 1..Len(cur) : ms[cur[k]].winner # None}
        ord == SortByKey(won, [k \in won |-> <<k>>])
    IN  [k \in 1..Len(ord) |-> ms[cur[ord[k]]].winner]

Outcome(es, ms, created, error, teams, saved) ==
    [entries |-> es, matches |-> ms, created |-> created, error |-> error,
     teams |-> teams, saved |-> saved]

\* The branch of _progress_knockout taken when no knockout match exists.
FirstRound(es, ms, qualifiers) ==
    IF Len(qualifiers) < 2
    THEN Outcome(es, ms, 0, "InsufficientQualifiers", <<>>, {})
    ELSE IF NotPowerOfTwo(Len(qualifiers))
    THEN Outcome(es, ms, 0, "NotPowerOfTwo", <<>>, {})
    ELSE IF Len(qualifiers) % 2 # 0
    THEN Outcome(es, ms, 0, "OddQualifierCount", <<>>, {})
    ELSE LET r == CreateKnockoutRound(es, ms, qualifiers)
         IN  Outcome(r.entries, r.matches, r.created,
                     IF r.error # "" THEN r.error
                     ELSE IF r.created # 0 THEN "" ELSE "KnockoutAlreadyExists",
                     qualifiers, r.saved)

RoundIncomplete_Never(ms) == FALSE

\* if current_round_matches.filter(winner__isnull=True).exists()
RoundIncomplete(ms) ==
    \E i \in Range(CurrentRoundMatches(ms)) : ms[i].winner = None

\* The branch of _progress_knockout taken when knockout matches exist.
NextRound(es, ms) ==
    IF RoundIncomplete(ms)
    THEN Outcome(es, ms, 0, "RoundIncomplete", <<>>, {})
    ELSE LET winners == Winners(ms)
         IN  IF Len(winners) < 2
             THEN Outcome(es, ms, 0, "InsufficientWinners", <<>>, {})
             ELSE IF Len(winners) % 2 # 0
             THEN Outcome(es, ms, 0, "OddWinnerCount", <<>>, {})
             ELSE LET r == CreateKnockoutRound(es, ms, winners)
                  IN  Outcome(r.entries, r.matches, r.created,
                              IF r.error # "" THEN r.error
                              ELSE IF r.created # 0 THEN "" ELSE "NextRoundAlreadyExists",
                              winners, r.saved)

\* _progress_knockout
ProgressKnockout(es, ms, qualifiers_per_group, small_group_qualifiers, expected_group_size) ==
    IF KnockoutMatches(ms) = {}
    THEN FirstRound(es, ms,
                    CollectGroupQualifiers(es, ms, qualifiers_per_group,
                                           small_group_qualifiers, expected_group_size))
    ELSE NextRound(es, ms)

\* _apply_game_edit on the match at index i.
ApplyGameEdit(ms, i, sets_one, sets_two) ==
    [ms EXCEPT ![i] = [ms[i] EXCEPT
        !.team_one_sets_won = sets_one,
        !.team_two_sets_won = sets_two,
        !.winner = IF sets_one > sets_two THEN ms[i].team_one ELSE ms[i].team_two]]

\* ------------------------------------------- actions: results and knockout
\* The scores the result forms are given here: one side wins by a set.  The
\* forms reject equal counts (MatchGameEditForm.clean).
ResultScores == {<<1, 0>>, <<0, 1>>}

HasKnockout(ms) == \E i \in 1..Len(ms) : ms[i].round_name[1] = KnockoutPrefix

\* The matches of the knockout round created last, in creation order.
LatestRoundIndexes(ms) ==
    LET ks == {i \in 1..Len(ms) : ms[i].round_name[1] = KnockoutPrefix}
        newest == CHOOSE i \in ks : \A j \in ks : j <= i
        cur == {i \in ks : ms[i].round_name = ms[newest].round_name}
    IN  SortByKey(cur, [i \in cur |-> <<i>>])

\* The matches of the phase being played: the group matches until a knockout
\* match exists, then the matches of the knockout round created last.
CurrentPhase(ms) ==
    IF HasKnockout(ms) THEN Range(LatestRoundIndexes(ms)) ELSE 1..Len(ms)

\* Results are entered in fixture order within the current phase, and a result
\* already entered can be corrected.
NextToPlay(ms, i) ==
    /\ i \in CurrentPhase(ms)
    /\ \A j \in CurrentPhase(ms) : j < i => ms[j].winner # None

\* tournament_detail, action "edit_result"
EditResult(i, sc) ==
    /\ NextToPlay(matches, i)
    /\ sc[1] # sc[2]
    /\ matches' = ApplyGameEdit(matches, i, sc[1], sc[2])
    /\ last' = [NoOp EXCEPT !.op = "result"]
    /\ UNCHANGED roster
    /\ UNCHANGED <<requests, guide>>
    /\ UNCHANGED <<enrolled_teams, set_scores, grouping_form, team_list>>

\* The values of TournamentGroupingForm: <<group_size, qualifiers_per_group,
\* small_group_qualifiers>>.  clean() wants qualifiers_per_group <= group_size
\* and small_group_qualifiers <= both; small_group_qualifiers is left at its
\* initial value.
GroupingForms ==
    {f \in GroupSizes \X (1..DefaultGroupSize) \X {DefaultSmallGroupQualifiers} :
        /\ f[2] <= f[1]
        /\ f[3] <= f[1]
        /\ f[3] <= f[2]}

\* tournament_detail, action "grouping" with build_knockout.
ProgressCall ==
    LET r == ProgressKnockout(enrolled_teams, matches, grouping_form[2],
                              grouping_form[3], grouping_form[1])
    IN  /\ enrolled_teams' = r.entries
        /\ matches' = r.matches
        /\ last' = [NoOp EXCEPT !.op = "progress", !.ret = r.created,
                                !.error = r.error, !.teams = r.teams,
                                !.saved = r.saved]
        /\ UNCHANGED roster
        /\ UNCHANGED <<requests, guide>>
        /\ UNCHANGED <<set_scores, grouping_form, team_list>>

\* The state after n teams were enrolled and the grouping request (assign, then
\* generate) ran with group size g.
GroupPhase(n, g) ==
    LET es == AssignGroups([k \in 1..n |-> NewTournamentTeam(k)], g).entries
    IN  [entries |-> es, matches |-> GenerateGroupRoundRobin(es, <<>>)]

InitKnockout ==
    \E n \in 0..MaxKnockoutTeams, f \in GroupingForms :
        /\ enrolled_teams = GroupPhase(n, f[1]).entries
        /\ matches = GroupPhase(n, f[1]).matches
        /\ set_scores = {}
        /\ grouping_form = f
        /\ team_list = <<>>
        /\ last = NoOp
        /\ requests = NoRequests
        /\ guide = NoGuide
        /\ RosterLeftOut

NextKnockout ==
    \/ \E i \in 1..Len(matches), sc \in ResultScores : EditResult(i, sc)
    \/ ProgressCall

SpecKnockout == InitKnockout /\ [][NextKnockout]_vars

\* ------------------------------------- actions: one knockout round, called
RoundTeams == 1..MaxRoundTeams

Reverse(s) == [k \in 1..Len(s) |-> s[Len(s) + 1 - k]]

\* _create_knockout_round called with the list under test or with it reversed.
CreateRoundCall(teams) ==
    LET r == CreateKnockoutRound(enrolled_teams, matches, teams)
    IN  /\ enrolled_teams' = r.entries
        /\ matches' = r.matches
        /\ last' = [NoOp EXCEPT !.op = "create", !.ret = r.created,
                                !.teams = teams, !.saved = r.saved]
        /\ UNCHANGED roster
        /\ UNCHANGED <<requests, guide>>
        /\ UNCHANGED <<set_scores, grouping_form, team_list>>

\* tournament_detail, action "edit_result", on a match that has a result.
CorrectResult(i, sc) ==
    /\ i \in 1..Len(matches)
    /\ matches[i].winner # None
    /\ sc[1] # sc[2]
    /\ matches' = ApplyGameEdit(matches, i, sc[1], sc[2])
    /\ last' = [NoOp EXCEPT !.op = "result"]
    /\ UNCHANGED roster
    /\ UNCHANGED <<requests, guide>>
    /\ UNCHANGED <<enrolled_teams, set_scores, grouping_form, team_list>>

\* All teams but the last are enrolled; the list under test is any list of
\* distinct teams.
InitRound ==
    /\ enrolled_teams = [k \in 1..(MaxRoundTeams - 1) |-> NewTournamentTeam(k)]
    /\ matches = <<>>
    /\ set_scores = {}
    /\ grouping_form = DefaultGroupingForm
    /\ team_list \in DistinctSeqs(RoundTeams)
    /\ last = NoOp
    /\ requests = NoRequests
    /\ guide = NoGuide
    /\ RosterLeftOut

NextRoundCalls ==
    \/ \E teams \in {team_list, Reverse(team_list)} : CreateRoundCall(teams)
    \/ \E i \in 1..Len(matches), sc \in ResultScores : EditResult(i, sc)
    \/ \E i \in 1..Len(matches), sc \in ResultScores : CorrectResult(i, sc)
    \/ ProgressCall

SpecRound == InitRound /\ [][NextRoundCalls]_vars

\* -------------------------------------------------------------- set scores
\* A SetScore row: [match, set_number, team_one_games, team_two_games,
\* tie_break_played, team_one_tie_break_points, team_two_tie_break_points];
\* match is the index of its match, a missing point count is NoPoints.
SetScoresOf(ss, i) == {s \in ss : s.match = i}

\* update_totals, had it let the tie-break points decide a set of equal games.
UpdateTotals_TieBreakDecides(ms, ss, i) ==
    LET set_scores_list == SetScoresOf(ss, i)
        team_one_sets == Cardinality({s \in set_scores_list :
            \/ s.team_one_games > s.team_two_games
            \/ /\ s.team_one_games = s.team_two_games
               /\ s.team_one_tie_break_points > s.team_two_tie_break_points})
        team_two_sets == Cardinality({s \in set_scores_list :
            \/ s.team_two_games > s.team_one_games
            \/ /\ s.team_one_games = s.team_two_games
               /\ s.team_two_tie_break_points > s.team_one_tie_break_points})
        winner == IF team_one_sets # team_two_sets
                  THEN (IF team_one_sets > team_two_sets THEN ms[i].team_one
                        ELSE ms[i].team_two)
                  ELSE None
    IN  [ms EXCEPT ![i] = [ms[i] EXCEPT !.team_one_sets_won = team_one_sets,
                                        !.team_two_sets_won = team_two_sets,
                                        !.winner = winner]]

\* Match.update_totals (commit=True) for the match at index i.
UpdateTotals(ms, ss, i) ==
    LET set_scores_list == SetScoresOf(ss, i)
        team_one_sets == Cardinality({s \in set_scores_list :
                                         s.team_one_games > s.team_two_games})
        team_two_sets == Cardinality({s \in set_scores_list :
                                         s.team_two_games > s.team_one_games})
        winner == IF team_one_sets # team_two_sets
                  THEN (IF team_one_sets > team_two_sets THEN ms[i].team_one
                        ELSE ms[i].team_two)
                  ELSE None
    IN  [ms EXCEPT ![i] = [ms[i] EXCEPT !.team_one_sets_won = team_one_sets,
                                        !.team_two_sets_won = team_two_sets,
                                        !.winner = winner]]

\* SetScore.clean raises when a tie-break was played and a point count is missing.
CleanFails(s) ==
    /\ s.tie_break_played
    /\ \/ s.team_one_tie_break_points = NoPoints
       \/ s.team_two_tie_break_points = NoPoints

\* SetScore.clean, had it kept the points of a set without tie-break.
Cleaned_KeepsPoints(s) == s

\* SetScore.clean: the row as it is stored when clean does not raise.
Cleaned(s) ==
    IF s.tie_break_played THEN s
    ELSE [s EXCEPT !.team_one_tie_break_points = NoPoints,
                   !.team_two_tie_break_points = NoPoints]

\* unique_set_number_per_match, checked against the rows other than `others`.
NumberTaken(ss, s, own) ==
    \E o \in ss \ own : o.match = s.match /\ o.set_number = s.set_number

\* Match._normalize_point_sequence: str(value).strip().upper() of one token.
StripUpper(v) ==
    CASE v = "game" -> "GAME"
      [] v = " 30 " -> "30"
      [] v = " " -> ""
      [] OTHER -> v

AllowedPoints == {"15", "30", "40", "45", "GAME"}

InvalidPointToken(values) ==
    \E k \in 1..Len(values) :
        StripUpper(values[k]) # "" /\ StripUpper(values[k]) \notin AllowedPoints

RECURSIVE NormalizePointSequence(_)
NormalizePointSequence(values) ==
    IF values = <<>> THEN <<>>
    ELSE IF StripUpper(Head(values)) = "" THEN NormalizePointSequence(Tail(values))
    ELSE <<StripUpper(Head(values))>> \o NormalizePointSequence(Tail(values))

\* ------------------------------------------------------ actions: set scores
\* The games of a set as entered: 6-4, 4-6 and the drawn set 6-6.
GameScores == {<<6, 4>>, <<4, 6>>, <<6, 6>>}

SetNumbers == 1..MaxSetNumber

\* The tie-break fields as entered: not played (with and without stray
\* points), played with both point counts, played with one missing.
TieBreakInputs ==
    {<<FALSE, NoPoints, NoPoints>>, <<FALSE, TieBreakTarget, TieBreakTarget>>,
     <<TRUE, TieBreakTarget, TieBreakTarget>>, <<TRUE, TieBreakTarget, NoPoints>>}

SetScoreInputs(i) ==
    {[match |-> i, set_number |-> n,
      team_one_games |-> g[1], team_two_games |-> g[2],
      tie_break_played |-> tb[1],
      team_one_tie_break_points |-> tb[2],
      team_two_tie_break_points |-> tb[3]] :
        n \in SetNumbers, g \in GameScores, tb \in TieBreakInputs}

\* The two point sequences as entered in the points form.
PointInputs == {<<<<>>, <<>>>>, <<<<"15", "game">>, <<" 30 ", " ">>>>}

\* SetScore.save of a new row: full_clean, insert, match.update_totals().
SaveNewSetScore(s) ==
    /\ s.match \in 1..Len(matches)
    /\ IF CleanFails(s) \/ NumberTaken(set_scores, s, {})
       THEN /\ last' = [NoOp EXCEPT !.op = "save_set", !.arg = s,
                           !.error = IF CleanFails(s) THEN "MissingTieBreakPoints"
                                     ELSE "DuplicateSetNumber"]
            /\ UNCHANGED roster
            /\ UNCHANGED <<requests, guide>>
            /\ UNCHANGED <<matches, set_scores>>
       ELSE /\ set_scores' = set_scores \cup {Cleaned(s)}
            /\ matches' = UpdateTotals(matches, set_scores', s.match)
            /\ last' = [NoOp EXCEPT !.op = "save_set", !.arg = s]
    /\ UNCHANGED roster
    /\ UNCHANGED <<requests, guide>>
    /\ UNCHANGED <<enrolled_teams, grouping_form, team_list>>

\* SetScore.save of an existing row `old` with new field values s.
SaveChangedSetScore(old, s) ==
    /\ old \in set_scores
    /\ s.match = old.match
    /\ s # old
    /\ IF CleanFails(s) \/ NumberTaken(set_scores, s, {old})
       THEN /\ last' = [NoOp EXCEPT !.op = "save_set", !.arg = s,
                           !.error = IF CleanFails(s) THEN "MissingTieBreakPoints"
                                     ELSE "DuplicateSetNumber"]
            /\ UNCHANGED roster
            /\ UNCHANGED <<requests, guide>>
            /\ UNCHANGED <<matches, set_scores>>
       ELSE /\ set_scores' = (set_scores \ {old}) \cup {Cleaned(s)}
            /\ matches' = UpdateTotals(matches, set_scores', s.match)
            /\ last' = [NoOp EXCEPT !.op = "save_set", !.arg = s]
    /\ UNCHANGED roster
    /\ UNCHANGED <<requests, guide>>
    /\ UNCHANGED <<enrolled_teams, grouping_form, team_list>>

\* A SetScore row deleted on its own (the SetScoreInline of the Match admin, a
\* queryset delete): SetScore does not override delete, nothing else is written.
DeleteSetScore(old) ==
    /\ old \in set_scores
    /\ set_scores' = set_scores \ {old}
    /\ last' = [NoOp EXCEPT !.op = "delete_set"]
    /\ UNCHANGED roster
    /\ UNCHANGED <<requests, guide>>
    /\ UNCHANGED <<enrolled_teams, matches, grouping_form, team_list>>

\* match_result_update (POST) for the match at index i: the formset deletes the
\* rows in `deleted` and adds the rows in `added` (at most one here), the two
\* point sequences are stored, and the totals are recomputed.  An invalid form
\* leaves everything as it was.
MatchResultUpdate(i, deleted, added, points_one, points_two) ==
    /\ i \in 1..Len(matches)
    /\ deleted \subseteq SetScoresOf(set_scores, i)
    /\ Cardinality(added) <= 1
    /\ IF \/ \E s \in added : CleanFails(s) \/ NumberTaken(set_scores, s, deleted)
          \/ InvalidPointToken(points_one)
          \/ InvalidPointToken(points_two)
       THEN /\ last' = [NoOp EXCEPT !.op = "result_update", !.error = "InvalidForm"]
            /\ UNCHANGED roster
            /\ UNCHANGED <<requests, guide>>
            /\ UNCHANGED <<matches, set_scores>>
       ELSE LET kept == (set_scores \ deleted) \cup {Cleaned(s) : s \in added}
                stored == [matches EXCEPT ![i] = [matches[i] EXCEPT
                    !.team_one_point_sequence = NormalizePointSequence(points_one),
                    !.team_two_point_sequence = NormalizePointSequence(points_two),
                    !.tie_break_played =
                        \E s \in SetScoresOf(kept, i) : s.tie_break_played]]
            IN  /\ set_scores' = kept
                /\ matches' = UpdateTotals(stored, kept, i)
                /\ last' = [NoOp EXCEPT !.op = "result_update"]
    /\ UNCHANGED roster
    /\ UNCHANGED <<requests, guide>>
    /\ UNCHANGED <<enrolled_teams, grouping_form, team_list>>

\* Two enrolled teams and one match between them, without set scores.
InitScore ==
    /\ enrolled_teams = <<NewTournamentTeam(1), NewTournamentTeam(2)>>
    /\ matches = <<NewMatch(DefaultRoundName, 1, 2)>>
    /\ set_scores = {}
    /\ grouping_form = DefaultGroupingForm
    /\ team_list = <<>>
    /\ last = NoOp
    /\ requests = NoRequests
    /\ guide = NoGuide
    /\ RosterLeftOut

NextScore ==
    \/ \E s \in SetScoreInputs(1) : SaveNewSetScore(s)
    \/ \E old \in set_scores, s \in SetScoreInputs(1) : SaveChangedSetScore(old, s)
    \/ \E old \in set_scores : DeleteSetScore(old)
    \/ \E deleted \in SUBSET set_scores, added \in {{}} \cup {{s} : s \in SetScoreInputs(1)},
          p \in PointInputs :
          MatchResultUpdate(1, deleted, added, p[1], p[2])

SpecScore == InitScore /\ [][NextScore]_vars

\* ------------------------------------------------- update_totals on its own
\* The sets a match may hold when its totals are recomputed: per set number
\* no row or one row, with the games 6-4, 4-6, 10-8 or 6-6 and the tie-break
\* not played, played 10-8 or played 5-7.
TotalsGameScores == {<<6, 4>>, <<4, 6>>, <<10, 8>>, <<6, 6>>}

TotalsTieBreaks == {<<FALSE, NoPoints, NoPoints>>, <<TRUE, 10, 8>>, <<TRUE, 5, 7>>}

TotalsRow(n, g, tb) ==
    [match |-> 1, set_number |-> n,
     team_one_games |-> g[1], team_two_games |-> g[2],
     tie_break_played |-> tb[1],
     team_one_tie_break_points |-> tb[2],
     team_two_tie_break_points |-> tb[3]]

TotalsSetScores ==
    {{TotalsRow(n, f[n][1], f[n][2]) : n \in {k \in 1..MaxTotalsSets : f[k] # <<>>}} :
        f \in [1..MaxTotalsSets ->
                  {<<>>} \cup (TotalsGameScores \X TotalsTieBreaks)]}

\* match.update_totals() called on the match at index i.
UpdateTotalsCall(i) ==
    /\ i \in 1..Len(matches)
    /\ matches' = UpdateTotals(matches, set_scores, i)
    /\ last' = [NoOp EXCEPT !.op = "update_totals", !.arg = i]
    /\ UNCHANGED roster
    /\ UNCHANGED <<requests, guide>>
    /\ UNCHANGED <<enrolled_teams, set_scores, grouping_form, team_list>>

\* One match whose cached totals are the defaults or a stale 1-0 win.
InitTotals ==
    /\ enrolled_teams = <<NewTournamentTeam(1), NewTournamentTeam(2)>>
    /\ matches \in {<<NewMatch(DefaultRoundName, 1, 2)>>,
                    <<[NewMatch(DefaultRoundName, 1, 2) EXCEPT
                          !.team_one_sets_won = 1, !.winner = 1]>>}
    /\ set_scores \in TotalsSetScores
    /\ grouping_form = DefaultGroupingForm
    /\ team_list = <<>>
    /\ last = NoOp
    /\ requests = NoRequests
    /\ guide = NoGuide
    /\ RosterLeftOut

NextTotals == UpdateTotalsCall(1)

SpecTotals == InitTotals /\ [][NextTotals]_vars

\* ------------------------------------------------ build_standings on its own
StandingTeams == 1..3

\* The cached result of a match: sets won by each side and the winner's side
\* (0 for none): not played, 1-1, 2-0, 2-1, 0-2, 1-2.
StandingOutcomes ==
    {<<0, 0, 0>>, <<1, 1, 0>>, <<2, 0, 1>>, <<2, 1, 1>>, <<0, 2, 2>>, <<1, 2, 2>>}

StandingMatch(a, b, o) ==
    [NewMatch(DefaultRoundName, a, b) EXCEPT
        !.team_one_sets_won = o[1],
        !.team_two_sets_won = o[2],
        !.winner = IF o[3] = 1 THEN a ELSE IF o[3] = 2 THEN b ELSE None]

StandingMatches ==
    {StandingMatch(p[1], p[2], o) :
        p \in {q \in StandingTeams \X StandingTeams : q[1] < q[2]},
        o \in StandingOutcomes}

\* tournament.build_standings()
BuildStandingsCall ==
    /\ last' = [NoOp EXCEPT !.op = "standings", !.rows = BuildStandings(matches)]
    /\ UNCHANGED roster
    /\ UNCHANGED <<requests, guide>>
    /\ UNCHANGED <<enrolled_teams, matches, set_scores, grouping_form, team_list>>

\* The three teams are enrolled and up to MaxStandingMatches matches are stored.
InitStandings ==
    /\ enrolled_teams = [k \in StandingTeams |-> NewTournamentTeam(k)]
    /\ \E n \in 0..MaxStandingMatches : matches \in [1..n -> StandingMatches]
    /\ set_scores = {}
    /\ grouping_form = DefaultGroupingForm
    /\ team_list = <<>>
    /\ last = NoOp
    /\ requests = NoRequests
    /\ guide = NoGuide
    /\ RosterLeftOut

NextStandings == BuildStandingsCall

SpecStandings == InitStandings /\ [][NextStandings]_vars

\* ---------------------------------------------- qualifier selection on its own
\* The arguments of _collect_group_qualifiers, kept in grouping_form as
\* <<expected_group_size, default_slots, small_group_slots>>.
QualifierArgs ==
    ({0} \cup GroupSizes) \X (0..DefaultGroupSize) \X (0..DefaultQualifiersPerGroup)

\* The sets won entered for a group match: 2-0, 2-1, 1-2.
GroupResultScores == {<<2, 0>>, <<2, 1>>, <<1, 2>>}

\* A group result entered before any knockout match exists.
GroupResult(i, sc) ==
    /\ ~HasKnockout(matches)
    /\ EditResult(i, sc)

\* _collect_group_qualifiers(tournament, default_slots, small_group_slots,
\* expected_group_size)
CollectQualifiersCall ==
    /\ last' = [NoOp EXCEPT !.op = "qualifiers",
                   !.rows = CollectGroupQualifiers(enrolled_teams, matches,
                                grouping_form[2], grouping_form[3], grouping_form[1])]
    /\ UNCHANGED roster
    /\ UNCHANGED <<requests, guide>>
    /\ UNCHANGED <<enrolled_teams, matches, set_scores, grouping_form, team_list>>

\* _progress_knockout with the same arguments, while no knockout match exists.
FirstRoundCall ==
    /\ ~HasKnockout(matches)
    /\ ProgressCall

InitQualifiers ==
    \E n \in 0..MaxQualifierTeams, g \in GroupSizes :
        /\ enrolled_teams = GroupPhase(n, g).entries
        /\ matches = GroupPhase(n, g).matches
        /\ set_scores = {}
        /\ grouping_form \in QualifierArgs
        /\ team_list = <<>>
        /\ last = NoOp
        /\ requests = NoRequests
        /\ guide = NoGuide
        /\ RosterLeftOut

NextQualifiers ==
    \/ \E i \in 1..Len(matches), sc \in GroupResultScores : GroupResult(i, sc)
    \/ CollectQualifiersCall
    \/ FirstRoundCall

SpecQualifiers == InitQualifiers /\ [][NextQualifiers]_vars

\* ------------------------------------------------------------------- teams
Genders == {GenderMale, GenderFemale, GenderMixed}

Divisions == {DivisionMale, DivisionFemale, DivisionMixed}

\* Two Category rows.
Categories == {1, 2}

ParticipantRows == [gender : Genders, category : Categories]

\* f"{player_one.full_name} / {player_two.full_name}"
PairName == "A / B"

MaleAllowed == {GenderMale, GenderMixed}

FemaleAllowed == {GenderFemale, GenderMixed}

NewTeam(player_one, player_two, category, division, name) ==
    [player_one |-> player_one, player_two |-> player_two,
     category |-> category, division |-> division, name |-> name]

\* Team.clean, had it left the mixed division unchecked.
TeamCleanError_MixedUnchecked(ps, t) ==
    LET genders == {ps[t.player_one].gender, ps[t.player_two].gender}
    IN  IF t.player_one = t.player_two THEN "SamePlayer"
        ELSE IF t.division = DivisionMale /\ ~(genders \subseteq MaleAllowed)
             THEN "MaleDivision"
        ELSE IF t.division = DivisionFemale /\ ~(genders \subseteq FemaleAllowed)
             THEN "FemaleDivision"
        ELSE IF ps[t.player_one].category # ps[t.player_two].category
             THEN "PlayerCategories"
        ELSE IF t.category # None /\ t.category # ps[t.player_one].category
             THEN "TeamCategory"
        ELSE ""

\* Team.clean: the check that raises, "" when none does.
TeamCleanError(ps, t) ==
    LET genders == {ps[t.player_one].gender, ps[t.player_two].gender}
    IN  IF t.player_one = t.player_two THEN "SamePlayer"
        ELSE IF t.division = DivisionMale /\ ~(genders \subseteq MaleAllowed)
             THEN "MaleDivision"
        ELSE IF t.division = DivisionFemale /\ ~(genders \subseteq FemaleAllowed)
             THEN "FemaleDivision"
        ELSE IF /\ t.division = DivisionMixed
                /\ ~(GenderMale \in genders \/ GenderMixed \in genders)
             THEN "MixedNeedsMale"
        ELSE IF /\ t.division = DivisionMixed
                /\ ~(GenderFemale \in genders \/ GenderMixed \in genders)
             THEN "MixedNeedsFemale"
        ELSE IF ps[t.player_one].category # ps[t.player_two].category
             THEN "PlayerCategories"
        ELSE IF t.category # None /\ t.category # ps[t.player_one].category
             THEN "TeamCategory"
        ELSE ""

\* The rows other than `own` that unique_team_pair forbids next to t.
TeamTaken(ts, t, own) ==
    \E i \in (1..Len(ts)) \ own :
        /\ ts[i].player_one = t.player_one
        /\ ts[i].player_two = t.player_two
        /\ ts[i].category = t.category
        /\ ts[i].division = t.division

\* full_clean of a Team row: the required category, clean, the constraint.
TeamFullCleanError(ps, ts, t, own) ==
    IF TeamCleanError(ps, t) # "" THEN TeamCleanError(ps, t)
    ELSE IF t.category = None THEN "CategoryRequired"
    ELSE IF TeamTaken(ts, t, own) THEN "DuplicateTeam"
    ELSE ""

\* The swap and the default name at the head of Team.save.
TeamNormalized(t) ==
    LET ordered == IF t.player_one > t.player_two
                   THEN [t EXCEPT !.player_one = t.player_two,
                                  !.player_two = t.player_one]
                   ELSE t
    IN  IF ordered.name = "" THEN [ordered EXCEPT !.name = PairName] ELSE ordered

\* Team.save of a new row.
TeamSave(ps, ts, t) ==
    LET row == TeamNormalized(t)
        error == TeamFullCleanError(ps, ts, row, {})
    IN  [team_table |-> IF error = "" THEN Append(ts, row) ELSE ts,
         error |-> error,
         team |-> IF error = "" THEN Len(ts) + 1 ELSE None]

\* team.name = name; team.save(update_fields=["name"]) of the row with id i.
TeamSaveName(ps, ts, i, name) ==
    LET row == TeamNormalized([ts[i] EXCEPT !.name = name])
        error == TeamFullCleanError(ps, ts, row, {i})
    IN  [team_table |-> IF error = "" THEN [ts EXCEPT ![i] = row] ELSE ts,
         error |-> error,
         team |-> i]

\* ----------------------------------------------------- Team.save on its own
TeamPlayers == 1..MaxTeamPlayers

TeamInputs ==
    {NewTeam(p[1], p[2], c, d, "") :
        p \in TeamPlayers \X TeamPlayers, c \in Categories, d \in Divisions}

\* Team(...).save() for a new row, while the table has room.
TeamSaveCall(t) ==
    /\ Len(team_table) < MaxTeamRows
    /\ LET r == TeamSave(participants, team_table, t)
       IN  /\ team_table' = r.team_table
           /\ last' = [NoOp EXCEPT !.op = "team_save", !.arg = t, !.error = r.error]
    /\ UNCHANGED <<participants, tournament_participants, tournament, requests, guide>>
    /\ UNCHANGED <<enrolled_teams, matches, set_scores, grouping_form, team_list>>

\* The first participant is of the first category.
InitTeam ==
    /\ participants \in {ps \in [TeamPlayers -> ParticipantRows] :
                            ps[1].category = 1}
    /\ team_table = <<>>
    /\ tournament_participants = <<>>
    /\ tournament = DefaultTournament
    /\ enrolled_teams = <<>>
    /\ matches = <<>>
    /\ set_scores = {}
    /\ grouping_form = DefaultGroupingForm
    /\ team_list = <<>>
    /\ last = NoOp
    /\ requests = NoRequests
    /\ guide = NoGuide

NextTeam == \E t \in TeamInputs : TeamSaveCall(t)

SpecTeam == InitTeam /\ [][NextTeam]_vars

\* ----------------------------------------------------------------- pairing
\* Two ids in the order of sorted(..., key=pk).
SortedByPk(player_one, player_two) ==
    IF player_one <= player_two THEN <<player_one, player_two>>
    ELSE <<player_two, player_one>>

\* The ids of the Team rows that Team.objects.get(player_one, player_two,
\* category, division) matches.
TeamsFound(ts, player_one, player_two, category, division) ==
    {i \in 1..Len(ts) :
        /\ ts[i].player_one = player_one
        /\ ts[i].player_two = player_two
        /\ ts[i].category = category
        /\ ts[i].division = division}

\* TournamentParticipant.objects.get_or_create for each id of `players`.
RegisterPlayers(tps, players) ==
    LET first == IF players[1] \in Range(tps) THEN tps
                 ELSE Append(tps, players[1])
    IN  IF players[2] \in Range(first) THEN first
        ELSE Append(first, players[2])

\* TournamentTeam.objects.get_or_create(tournament, team)
EnrollOnce(es, team) ==
    IF team \in EnrolledIds(es) THEN es ELSE Append(es, NewTournamentTeam(team))

\* _create_tournament_team, had it looked the team up in the order given.
CreateTournamentTeam_OrderAsGiven(ps, ts, tps, es, tn, player_one, player_two, custom_name) ==
    LET players == <<player_one, player_two>>
        category == IF tn.category # None THEN tn.category
                    ELSE ps[players[1]].category
        found == TeamsFound(ts, players[1], players[2], category, tn.division)
        Renamed(got) ==
            IF /\ got.error = ""
               /\ custom_name # ""
               /\ got.team_table[got.team].name # custom_name
            THEN TeamSaveName(ps, got.team_table, got.team, custom_name)
            ELSE got
        Registered(renamed) ==
            IF renamed.error # ""
            THEN [team_table |-> ts, tournament_participants |-> tps,
                  enrolled_teams |-> es, error |-> renamed.error,
                  team |-> None]
            ELSE [team_table |-> renamed.team_table,
                  tournament_participants |-> RegisterPlayers(tps, players),
                  enrolled_teams |-> EnrollOnce(es, renamed.team),
                  error |-> "", team |-> renamed.team]
    IN  Only({Only({Registered(renamed) : renamed \in {Renamed(got)}}) :
                 got \in {IF found # {}
                          THEN [team_table |-> ts, error |-> "",
                                team |-> Only(found)]
                          ELSE TeamSave(ps, ts,
                                        NewTeam(players[1], players[2],
                                                category, tn.division,
                                                custom_name))}})

\* _create_tournament_team: the tables after the call, the validation error
\* it raised ("" for none) and the team of the enrollment it returned.  The
\* team is got or created, then renamed, then registered and enrolled.
CreateTournamentTeam(ps, ts, tps, es, tn, player_one, player_two, custom_name) ==
    LET players == SortedByPk(player_one, player_two)
        category == IF tn.category # None THEN tn.category
                    ELSE ps[players[1]].category
        found == TeamsFound(ts, players[1], players[2], category, tn.division)
        Renamed(got) ==
            IF /\ got.error = ""
               /\ custom_name # ""
               /\ got.team_table[got.team].name # custom_name
            THEN TeamSaveName(ps, got.team_table, got.team, custom_name)
            ELSE got
        Registered(renamed) ==
            IF renamed.error # ""
            THEN [team_table |-> ts, tournament_participants |-> tps,
                  enrolled_teams |-> es, error |-> renamed.error,
                  team |-> None]
            ELSE [team_table |-> renamed.team_table,
                  tournament_participants |-> RegisterPlayers(tps, players),
                  enrolled_teams |-> EnrollOnce(es, renamed.team),
                  error |-> "", team |-> renamed.team]
    IN  Only({Only({Registered(renamed) : renamed \in {Renamed(got)}}) :
                 got \in {IF found # {}
                          THEN [team_table |-> ts, error |-> "",
                                team |-> Only(found)]
                          ELSE TeamSave(ps, ts,
                                        NewTeam(players[1], players[2],
                                                category, tn.division,
                                                custom_name))}})

\* ------------------------------------------------------- actions: pairing
CustomNames == {"", "Duo"}

\* A tournament of any division, open to every category or held for the first.
TournamentRows == [division : Divisions, category : {None, 1}]

\* The two participants that are paired.
PairPlayers == {1, 2}

\* The teams the team page is asked to create: of the tournament's division
\* and with the default name.
TeamPageInputs ==
    {NewTeam(p[1], p[2], c, tournament.division, "") :
        p \in PairPlayers \X PairPlayers, c \in Categories}

\* _create_tournament_team(tournament, player_one, player_two, custom_name),
\* while the Team table has room.  It returns the team of the enrollment, and
\* `saved` holds the team whose enrollment row the call created.
ManualPairCall(player_one, player_two, custom_name) ==
    \E r \in {CreateTournamentTeam(participants, team_table,
                                   tournament_participants, enrolled_teams,
                                   tournament, player_one, player_two,
                                   custom_name)} :
        /\ Len(r.team_table) <= MaxTeamRows
        /\ team_table' = r.team_table
        /\ tournament_participants' = r.tournament_participants
        /\ enrolled_teams' = r.enrolled_teams
        /\ last' = [NoOp EXCEPT !.op = "manual_pair",
                                !.arg = <<player_one, player_two, custom_name>>,
                                !.ret = r.team, !.error = r.error,
                                !.saved = EnrolledIds(r.enrolled_teams)
                                            \ EnrolledIds(enrolled_teams)]
        /\ UNCHANGED <<participants, tournament, requests, guide>>
        /\ UNCHANGED <<matches, set_scores, grouping_form, team_list>>

\* The change form of ParticipantAdmin saved with another gender or category
\* for the participant with id i.
ParticipantAdminChange(i, row) ==
    /\ row # participants[i]
    /\ participants' = [participants EXCEPT ![i] = row]
    /\ last' = [NoOp EXCEPT !.op = "participant_change", !.arg = i]
    /\ UNCHANGED <<team_table, tournament_participants, tournament, requests, guide>>
    /\ UNCHANGED <<enrolled_teams, matches, set_scores, grouping_form, team_list>>

InitPair ==
    /\ participants \in [PairPlayers -> ParticipantRows]
    /\ team_table = <<>>
    /\ tournament_participants = <<>>
    /\ tournament \in TournamentRows
    /\ enrolled_teams = <<>>
    /\ matches = <<>>
    /\ set_scores = {}
    /\ grouping_form = DefaultGroupingForm
    /\ team_list = <<>>
    /\ last = NoOp
    /\ requests = NoRequests
    /\ guide = NoGuide

NextPair ==
    \/ \E p \in PairPlayers, q \in PairPlayers, n \in CustomNames :
           ManualPairCall(p, q, n)
    \/ \E t \in TeamPageInputs : TeamSaveCall(t)
    \/ \E i \in PairPlayers, row \in ParticipantRows :
           ParticipantAdminChange(i, row)

SpecPair == InitPair /\ [][NextPair]_vars

\* ------------------------------------------------------- automatic pairing
\* The ids of a set in ascending order, which is the order of full_name.
ByFullName(S) == SortByKey(S, [x \in S |-> <<x>>])

\* _participants_without_team, had it left the paired participants in.
ParticipantsWithoutTeam_PairedIncluded(ts, tps, es) == ByFullName(Range(tps))

\* _participants_without_team: the registered participants that are in no
\* enrolled team, ordered by name.
ParticipantsWithoutTeam(ts, tps, es) ==
    LET paired_ids == UNION {{ts[es[i].team].player_one,
                              ts[es[i].team].player_two} : i \in 1..Len(es)}
    IN  ByFullName(Range(tps) \ paired_ids)

\* available[idx], available[idx + 1] for idx in range(0, len(available) - 1, 2)
RECURSIVE ConsecutivePairs(_)
ConsecutivePairs(available) ==
    IF Len(available) < 2 THEN <<>>
    ELSE <<<<available[1], available[2]>>>>
             \o ConsecutivePairs(Tail(Tail(available)))

Last(s) == s[Len(s)]

Front(s) == SubSeq(s, 1, Len(s) - 1)

\* The pairs of the mixed pairing, had it paired the flexible participants
\* with each other before anyone else.
RECURSIVE MixedPairs_FlexFirst(_, _, _)
MixedPairs_FlexFirst(male_pool, female_pool, flex_pool) ==
    IF Len(flex_pool) >= 2
    THEN <<<<Last(flex_pool), Last(Front(flex_pool))>>>>
             \o MixedPairs_FlexFirst(male_pool, female_pool,
                                     Front(Front(flex_pool)))
    ELSE IF male_pool # <<>> /\ female_pool # <<>>
    THEN <<<<Last(male_pool), Last(female_pool)>>>>
             \o MixedPairs_FlexFirst(Front(male_pool), Front(female_pool),
                                     flex_pool)
    ELSE IF male_pool # <<>> /\ flex_pool # <<>>
    THEN <<<<Last(male_pool), Last(flex_pool)>>>>
             \o MixedPairs_FlexFirst(Front(male_pool), female_pool,
                                     Front(flex_pool))
    ELSE IF female_pool # <<>> /\ flex_pool # <<>>
    THEN <<<<Last(flex_pool), Last(female_pool)>>>>
             \o MixedPairs_FlexFirst(male_pool, Front(female_pool),
                                     Front(flex_pool))
    ELSE <<>>

\* The pairs of the mixed pairing, had the loop that pairs a flexible
\* participant with a female one been left out.
RECURSIVE MixedPairs_NoFlexFemale(_, _, _)
MixedPairs_NoFlexFemale(male_pool, female_pool, flex_pool) ==
    IF male_pool # <<>> /\ female_pool # <<>>
    THEN <<<<Last(male_pool), Last(female_pool)>>>>
             \o MixedPairs_NoFlexFemale(Front(male_pool), Front(female_pool),
                                        flex_pool)
    ELSE IF male_pool # <<>> /\ flex_pool # <<>>
    THEN <<<<Last(male_pool), Last(flex_pool)>>>>
             \o MixedPairs_NoFlexFemale(Front(male_pool), female_pool,
                                        Front(flex_pool))
    ELSE IF Len(flex_pool) >= 2
    THEN <<<<Last(flex_pool), Last(Front(flex_pool))>>>>
             \o MixedPairs_NoFlexFemale(male_pool, female_pool,
                                        Front(Front(flex_pool)))
    ELSE <<>>

\* The four while loops of _auto_pair_mixed_participants, each popping from
\* the end of its pools.  A loop's condition rules out the loops before it, so
\* the first loop whose condition holds is the one that runs.
RECURSIVE MixedPairs(_, _, _)
MixedPairs(male_pool, female_pool, flex_pool) ==
    IF male_pool # <<>> /\ female_pool # <<>>
    THEN <<<<Last(male_pool), Last(female_pool)>>>>
             \o MixedPairs(Front(male_pool), Front(female_pool), flex_pool)
    ELSE IF male_pool # <<>> /\ flex_pool # <<>>
    THEN <<<<Last(male_pool), Last(flex_pool)>>>>
             \o MixedPairs(Front(male_pool), female_pool, Front(flex_pool))
    ELSE IF female_pool # <<>> /\ flex_pool # <<>>
    THEN <<<<Last(flex_pool), Last(female_pool)>>>>
             \o MixedPairs(male_pool, Front(female_pool), Front(flex_pool))
    ELSE IF Len(flex_pool) >= 2
    THEN <<<<Last(flex_pool), Last(Front(flex_pool))>>>>
             \o MixedPairs(male_pool, female_pool, Front(Front(flex_pool)))
    ELSE <<>>

\* The participants of a list with a gender of `genders`, in the list's order.
PoolOf(ps, available, genders) ==
    SeqFilter(available, {i \in Range(available) : ps[i].gender \in genders})

\* The try/except loop over the pairs, had a failed pair ended the batch.
RECURSIVE CreatePairs_AbortOnFailure(_, _, _, _, _, _, _, _)
CreatePairs_AbortOnFailure(ps, ts, tps, es, tn, pairs, created, skipped) ==
    IF pairs = <<>>
    THEN [team_table |-> ts, tournament_participants |-> tps,
          enrolled_teams |-> es, created |-> created, skipped |-> skipped]
    ELSE Only({IF r.error # ""
               THEN [team_table |-> ts, tournament_participants |-> tps,
                     enrolled_teams |-> es, created |-> created,
                     skipped |-> skipped + Len(pairs)]
               ELSE CreatePairs_AbortOnFailure(
                        ps, r.team_table, r.tournament_participants,
                        r.enrolled_teams, tn, Tail(pairs), created + 1,
                        skipped) :
                  r \in {CreateTournamentTeam(ps, ts, tps, es, tn,
                                              Head(pairs)[1], Head(pairs)[2],
                                              "")}})

\* The try/except loop over the pairs: a ValidationError counts the pair as
\* skipped, anything else as created.
RECURSIVE CreatePairs(_, _, _, _, _, _, _, _)
CreatePairs(ps, ts, tps, es, tn, pairs, created, skipped) ==
    IF pairs = <<>>
    THEN [team_table |-> ts, tournament_participants |-> tps,
          enrolled_teams |-> es, created |-> created, skipped |-> skipped]
    ELSE Only({CreatePairs(ps, r.team_table, r.tournament_participants,
                           r.enrolled_teams, tn, Tail(pairs),
                           IF r.error = "" THEN created + 1 ELSE created,
                           IF r.error = "" THEN skipped ELSE skipped + 1) :
                  r \in {CreateTournamentTeam(ps, ts, tps, es, tn,
                                              Head(pairs)[1], Head(pairs)[2],
                                              "")}})

\* _auto_pair_mixed_participants
AutoPairMixedParticipants(ps, ts, tps, es, tn, available) ==
    Only({LET leftover_participants == Len(available) - 2 * Len(pairs)
          IN  Only({[r EXCEPT !.skipped = r.skipped + leftover_participants] :
                       r \in {CreatePairs(ps, ts, tps, es, tn, pairs, 0, 0)}}) :
             pairs \in {MixedPairs(
                            PoolOf(ps, available, {GenderMale}),
                            PoolOf(ps, available, {GenderFemale}),
                            PoolOf(ps, available,
                                   Genders \ {GenderMale, GenderFemale}))}})

\* _auto_pair_tournament_participants, given the list after the shuffle.
AutoPairTournamentParticipants(ps, ts, tps, es, tn, available) ==
    IF available = <<>>
    THEN [team_table |-> ts, tournament_participants |-> tps,
          enrolled_teams |-> es, created |-> 0, skipped |-> 0]
    ELSE IF tn.division = DivisionMixed
    THEN AutoPairMixedParticipants(ps, ts, tps, es, tn, available)
    ELSE CreatePairs(ps, ts, tps, es, tn, ConsecutivePairs(available), 0, 0)

\* The pairs _auto_pair_tournament_participants hands to
\* _create_tournament_team for a list, in the order it does.
AttemptedPairs(ps, tn, available) ==
    IF tn.division = DivisionMixed
    THEN MixedPairs(PoolOf(ps, available, {GenderMale}),
                    PoolOf(ps, available, {GenderFemale}),
                    PoolOf(ps, available, Genders \ {GenderMale, GenderFemale}))
    ELSE ConsecutivePairs(available)

\* --------------------------------------------- actions: automatic pairing
\* The orders random.shuffle can leave a list in.
Shuffles(available) ==
    {s \in DistinctSeqs(Range(available)) : Len(s) = Len(available)}

\* tournament_detail, action auto_pair, with the shuffle box ticked or not.
\* ret and skipped are the two counts, rows the list that was paired, teams
\* the pairs that were attempted, saved the teams the call enrolled.
AutoPairCall(shuffle, available) ==
    \E r \in {AutoPairTournamentParticipants(
                  participants, team_table, tournament_participants,
                  enrolled_teams, tournament, available)} :
        /\ team_table' = r.team_table
        /\ tournament_participants' = r.tournament_participants
        /\ enrolled_teams' = r.enrolled_teams
        /\ last' = [NoOp EXCEPT !.op = "auto_pair", !.arg = shuffle,
                                !.ret = r.created, !.skipped = r.skipped,
                                !.rows = available,
                                !.teams = AttemptedPairs(participants,
                                                         tournament, available),
                                !.saved = EnrolledIds(r.enrolled_teams)
                                            \ EnrolledIds(enrolled_teams)]
        /\ UNCHANGED <<participants, tournament, requests, guide>>
        /\ UNCHANGED <<matches, set_scores, grouping_form, team_list>>

\* The auto_pair form posted: the list is shuffled when the box is ticked.
\* The box is ticked in the first posting only; later postings pair in the
\* order of the names.
AutoPairPosted ==
    \E available \in {ParticipantsWithoutTeam(team_table,
                                              tournament_participants,
                                              enrolled_teams)} :
        \E shuffle \in {FALSE} \cup {last.op = "none"} :
            \E order \in (IF shuffle THEN Shuffles(available)
                          ELSE {available}) :
                AutoPairCall(shuffle, order)

\* Participant rows of which at most one is outside the first category.
AutoPairRosters(n) ==
    {ps \in [1..n -> ParticipantRows] :
        Cardinality({i \in 1..n : ps[i].category # 1}) <= 1}

\* A tournament of a single-gender division, open to every category, with up
\* to MaxAutoPlayers participants, all registered and none paired.
InitAutoPair ==
    /\ \E n \in 0..MaxAutoPlayers :
          /\ participants \in AutoPairRosters(n)
          /\ tournament_participants = [i \in 1..n |-> i]
    /\ team_table = <<>>
    /\ tournament \in {tn \in TournamentRows : /\ tn.division # DivisionMixed
                                                /\ tn.category = None}
    /\ enrolled_teams = <<>>
    /\ matches = <<>>
    /\ set_scores = {}
    /\ grouping_form = DefaultGroupingForm
    /\ team_list = <<>>
    /\ last = NoOp
    /\ requests = NoRequests
    /\ guide = NoGuide

NextAutoPair == AutoPairPosted

SpecAutoPair == InitAutoPair /\ [][NextAutoPair]_vars

\* Three male, one female and two flexible participants.
MixedPool ==
    <<GenderMale, GenderMale, GenderMale, GenderFemale, GenderMixed,
      GenderMixed>>

\* The pool under every assignment of its genders to the ids.
MixedPoolRosters ==
    {ps \in [1..Len(MixedPool) -> [gender : Genders, category : {1}]] :
        \A g \in Genders :
            Cardinality({i \in 1..Len(MixedPool) : ps[i].gender = g})
              = Cardinality({i \in 1..Len(MixedPool) : MixedPool[i] = g})}

\* A mixed tournament with the pool registered and nobody paired.
InitAutoPairMixed ==
    /\ participants \in MixedPoolRosters
    /\ tournament_participants = [i \in 1..Len(MixedPool) |-> i]
    /\ team_table = <<>>
    /\ tournament \in {tn \in TournamentRows : tn.division = DivisionMixed}
    /\ enrolled_teams = <<>>
    /\ matches = <<>>
    /\ set_scores = {}
    /\ grouping_form = DefaultGroupingForm
    /\ team_list = <<>>
    /\ last = NoOp
    /\ requests = NoRequests
    /\ guide = NoGuide

NextAutoPairMixed == AutoPairPosted

SpecAutoPairMixed == InitAutoPairMixed /\ [][NextAutoPairMixed]_vars

\* A mixed tournament, open to every category, with up to MaxAutoPlayers
\* participants, all registered and none paired.
InitAutoPairPools ==
    /\ \E n \in 0..MaxAutoPlayers :
          /\ participants \in AutoPairRosters(n)
          /\ tournament_participants = [i \in 1..n |-> i]
    /\ team_table = <<>>
    /\ tournament = DefaultTournament
    /\ enrolled_teams = <<>>
    /\ matches = <<>>
    /\ set_scores = {}
    /\ grouping_form = DefaultGroupingForm
    /\ team_list = <<>>
    /\ last = NoOp
    /\ requests = NoRequests
    /\ guide = NoGuide

NextAutoPairPools == AutoPairPosted

SpecAutoPairPools == InitAutoPairPools /\ [][NextAutoPairPools]_vars

\* ---------------------------------------------------- group fixtures: claims
\* The matches of round r between a and b, in either side order.
PairMatches(ms, r, a, b) ==
    {i \in 1..Len(ms) :
        /\ ms[i].round_name = r
        /\ {ms[i].team_one, ms[i].team_two} = {a, b}}

RoundMatches(ms, r) == {i \in 1..Len(ms) : ms[i].round_name = r}

AtMostOnePerPair(ms) ==
    \A i, j \in 1..Len(ms) :
        (/\ ms[i].round_name = ms[j].round_name
         /\ {ms[i].team_one, ms[i].team_two} = {ms[j].team_one, ms[j].team_two})
        => i = j

LabelsCarried(es) == {es[i].group_label : i \in 1..Len(es)}

TeamsCarrying(es, l) == {es[i].team : i \in {j \in 1..Len(es) : es[j].group_label = l}}

IsGenerateStep == last'.op = "generate"

\* C1: a call of group-match generation that directly follows another one
\* returns 0 and leaves the matches as they were.
C1_SecondGenerationCreatesNothing ==
    [][(last.op = "generate" /\ IsGenerateStep)
         => (last'.ret = 0 /\ matches' = matches)]_vars

\* The second of two consecutive generation calls has run over existing fixtures.
C1_Witness ==
    /\ last.op = "generate"
    /\ last.ret = 0
    /\ Len(matches) >= 3

\* C2: after a generation call (from matches with at most one per pair and
\* label) every pair of teams sharing a label has exactly one match under that
\* label, a group of k teams without earlier matches gets k(k-1)/2 of them, and
\* every match the call adds is between two teams of the label it is named by.
C2_ExactlyOneMatchPerGroupPair ==
    [][(IsGenerateStep /\ AtMostOnePerPair(matches)) =>
        /\ SubSeq(matches', 1, Len(matches)) = matches
        /\ \A l \in LabelsCarried(enrolled_teams) :
              LET ts == TeamsCarrying(enrolled_teams, l)
                  k == Cardinality(ts)
              IN  /\ \A a, b \in ts :
                        a # b => Cardinality(PairMatches(matches', l, a, b)) = 1
                  /\ RoundMatches(matches, l) = {}
                        => 2 * Cardinality(RoundMatches(matches', l)) = k * (k - 1)
        /\ \A i \in (Len(matches) + 1)..Len(matches') :
              LET m == matches'[i]
              IN  /\ m.team_one # m.team_two
                  /\ EntryOf(enrolled_teams, m.team_one).group_label = m.round_name
                  /\ EntryOf(enrolled_teams, m.team_two).group_label = m.round_name
       ]_vars

\* A generation call has just filled a group of three next to another group.
C2_Witness ==
    /\ last.op = "generate"
    /\ last.ret >= 3
    /\ \E l \in LabelsCarried(enrolled_teams) :
          Cardinality(TeamsCarrying(enrolled_teams, l)) = 3
    /\ \E l1, l2 \in LabelsCarried(enrolled_teams) :
          /\ l1 # l2
          /\ Cardinality(TeamsCarrying(enrolled_teams, l1)) >= 2
          /\ Cardinality(TeamsCarrying(enrolled_teams, l2)) >= 2

\* ------------------------------------------------------- knockout: claims
IsPowerOfTwo(n) == \E k \in 0..n : 2 ^ k = n

IsProgressStep == last'.op = "progress"

NothingChanged ==
    /\ matches' = matches
    /\ enrolled_teams' = enrolled_teams

FailedWithoutEffect ==
    /\ last'.ret = 0
    /\ last'.error # ""
    /\ NothingChanged

QualifierCount ==
    Len(CollectGroupQualifiers(enrolled_teams, matches, grouping_form[2],
                               grouping_form[3], grouping_form[1]))

\* C3: with no knockout match, progression builds a first round exactly when
\* the number of group qualifiers is a power of two and at least 2; otherwise
\* it returns 0 with an error message and changes no match and no enrollment.
C3_FirstRoundOnlyForPowerOfTwo ==
    [][(IsProgressStep /\ ~HasKnockout(matches)) =>
        IF QualifierCount >= 2 /\ IsPowerOfTwo(QualifierCount)
        THEN /\ last'.ret = QualifierCount \div 2
             /\ last'.error = ""
             /\ Len(matches') = Len(matches) + QualifierCount \div 2
             /\ SubSeq(matches', 1, Len(matches)) = matches
             /\ \A i \in (Len(matches) + 1)..Len(matches') :
                   matches'[i].round_name = <<KnockoutPrefix, QualifierCount>>
        ELSE FailedWithoutEffect
       ]_vars

\* Progression has just refused six qualifiers.
C3_Witness ==
    /\ last.op = "progress"
    /\ last.error = "NotPowerOfTwo"
    /\ ~HasKnockout(matches)
    /\ Len(CollectGroupQualifiers(enrolled_teams, matches, grouping_form[2],
                                  grouping_form[3], grouping_form[1])) = 6

\* C4: while a match of the latest knockout round has no winner, progression
\* fails with RoundIncomplete, returns 0 and changes nothing.
C4_RoundInProgressBlocks ==
    [][(/\ IsProgressStep
        /\ HasKnockout(matches)
        /\ \E i \in Range(LatestRoundIndexes(matches)) : matches[i].winner = None)
        => (last'.error = "RoundIncomplete" /\ FailedWithoutEffect)
       ]_vars

\* Progression was refused with one semifinal decided and the other not.
C4_Witness ==
    /\ last.op = "progress"
    /\ last.error = "RoundIncomplete"
    /\ \E i, j \in Range(LatestRoundIndexes(matches)) :
          matches[i].winner # None /\ matches[j].winner = None

\* C5: when every match of the latest knockout round has a winner and there
\* are 2k >= 2 of them, progression adds exactly k matches, the j-th between
\* the winners of matches 2j-1 and 2j of that round in creation order, and no
\* loser of that round is in them.
C5_NextRoundFromWinnersInOrder ==
    [][(/\ IsProgressStep
        /\ HasKnockout(matches)
        /\ \A i \in Range(LatestRoundIndexes(matches)) : matches[i].winner # None
        /\ Len(LatestRoundIndexes(matches)) >= 2
        /\ Len(LatestRoundIndexes(matches)) % 2 = 0) =>
        LET cur == LatestRoundIndexes(matches)
            k == Len(cur) \div 2
            base == Len(matches)
            losers == ({matches[i].team_one : i \in Range(cur)}
                       \cup {matches[i].team_two : i \in Range(cur)})
                      \ {matches[i].winner : i \in Range(cur)}
        IN  /\ last'.ret = k
            /\ Len(matches') = base + k
            /\ SubSeq(matches', 1, base) = matches
            /\ \A j \in 1..k :
                  /\ matches'[base + j].team_one = matches[cur[2 * j - 1]].winner
                  /\ matches'[base + j].team_two = matches[cur[2 * j]].winner
                  /\ matches'[base + j].round_name = <<KnockoutPrefix, Len(cur)>>
                  /\ matches'[base + j].winner = None
                  /\ matches'[base + j].team_one \notin losers
                  /\ matches'[base + j].team_two \notin losers
       ]_vars

\* The semifinals have just been built from the four quarterfinal winners.
C5_Witness ==
    /\ last.op = "progress"
    /\ last.ret = 2
    /\ Len(last.teams) = 4
    /\ \E i \in 1..Len(matches) : matches[i].round_name = <<KnockoutPrefix, 8>>

\* ------------------------------------------------- knockout rounds: claims
IsBuildStep == last'.op \in {"create", "progress"} /\ Len(last'.teams) >= 2

PositionIn(teams, t) == CHOOSE k \in 1..Len(teams) : teams[k] = t

NoDuplicateKnockoutPairing(ms) ==
    \A i, j \in 1..Len(ms) :
        (/\ ms[i].round_name[1] = KnockoutPrefix
         /\ ms[i].round_name = ms[j].round_name
         /\ {ms[i].team_one, ms[i].team_two} = {ms[j].team_one, ms[j].team_two})
        => i = j

\* C6: once the latest knockout round is a single match with a winner, every
\* progression call returns 0 with a reason and changes no match and no
\* enrollment; and progression from a complete round of two matches (two
\* winners) adds exactly one match, the Final.
C6_FinalDecidedIsTerminal ==
    [][/\ (/\ IsProgressStep
           /\ HasKnockout(matches)
           /\ Len(LatestRoundIndexes(matches)) = 1
           /\ matches[LatestRoundIndexes(matches)[1]].winner # None)
          => (FailedWithoutEffect /\ last'.saved = {})
       /\ (/\ IsProgressStep
           /\ HasKnockout(matches)
           /\ Len(LatestRoundIndexes(matches)) = 2
           /\ \A i \in Range(LatestRoundIndexes(matches)) : matches[i].winner # None)
          => /\ last'.ret = 1
             /\ Len(matches') = Len(matches) + 1
             /\ SubSeq(matches', 1, Len(matches)) = matches
             /\ matches'[Len(matches')].round_name = <<KnockoutPrefix, 2>>
             /\ Len(LatestRoundIndexes(matches')) = 1
      ]_vars

\* Progression was refused after the Final, built from two semifinals, was decided.
C6_Witness ==
    /\ last.op = "progress"
    /\ last.ret = 0
    /\ last.error = "InsufficientWinners"
    /\ Len(LatestRoundIndexes(matches)) = 1
    /\ matches[LatestRoundIndexes(matches)[1]].round_name = <<KnockoutPrefix, 2>>
    /\ Len(matches) = 3

\* C7: _create_knockout_round given N distinct teams, N even and >= 2, and no
\* match under that round's name, adds exactly N/2 matches, the k-th between
\* positions 2k-1 and 2k of the list, so each listed team is in exactly one of
\* them; given fewer than 2 teams or an odd number it adds none.
C7_RoundPairsConsecutivePositions ==
    [][last'.op = "create" =>
        LET teams == last'.teams
            n == Len(teams)
            base == Len(matches)
        IN  IF n >= 2 /\ n % 2 = 0
            THEN (\A i \in 1..base : matches[i].round_name # <<KnockoutPrefix, n>>)
                 => /\ last'.ret = n \div 2
                    /\ Len(matches') = base + n \div 2
                    /\ SubSeq(matches', 1, base) = matches
                    /\ \A k \in 1..(n \div 2) :
                          /\ matches'[base + k].team_one = teams[2 * k - 1]
                          /\ matches'[base + k].team_two = teams[2 * k]
                          /\ matches'[base + k].round_name = <<KnockoutPrefix, n>>
                    /\ \A t \in Range(teams) :
                          Cardinality({i \in (base + 1)..Len(matches') :
                              t \in {matches'[i].team_one, matches'[i].team_two}}) = 1
            ELSE last'.ret = 0 /\ matches' = matches
       ]_vars

\* A round of two matches has just been built from a list of four teams.
C7_Witness ==
    /\ last.op = "create"
    /\ last.ret = 2
    /\ Len(last.teams) = 4
    /\ Len(matches) = 2

\* C8: after a round is built from a list, the enrollment of its i-th team has
\* stage knockout and seed i, every enrollment of a team outside the list is as
\* it was, and only the rows whose stage or seed changed were written.
C8_StageAndSeedStamped ==
    [][(IsBuildStep /\ Len(last'.teams) % 2 = 0) =>
        LET teams == last'.teams
            before == EnrolledIds(enrolled_teams)
        IN  /\ EnrolledIds(enrolled_teams') = before \cup Range(teams)
            /\ Len(enrolled_teams') = Cardinality(before \cup Range(teams))
            /\ \A t \in Range(teams) :
                  /\ EntryOf(enrolled_teams', t).stage = StageKnockout
                  /\ EntryOf(enrolled_teams', t).seed = PositionIn(teams, t)
            /\ \A t \in before \ Range(teams) :
                  EntryOf(enrolled_teams', t) = EntryOf(enrolled_teams, t)
            /\ last'.saved =
                  {t \in Range(teams) :
                      \/ t \notin before
                      \/ EntryOf(enrolled_teams, t).stage # StageKnockout
                      \/ EntryOf(enrolled_teams, t).seed # PositionIn(teams, t)}
       ]_vars

\* A round was built from a list in which one team already held its stage and
\* seed and another did not.
C8_Witness ==
    /\ last.op \in {"create", "progress"}
    /\ Len(last.teams) >= 2
    /\ last.saved # {}
    /\ last.saved # Range(last.teams)

\* C9: a second _create_knockout_round call with the same list, and a second
\* progression call with no result entered in between, create nothing; and no
\* build step makes a second match for a pair under one knockout round name.
C9_KnockoutCreationIdempotent ==
    [][/\ (last.op = "create" /\ last'.op = "create" /\ last'.teams = last.teams)
          => (last'.ret = 0 /\ matches' = matches /\ last'.saved = {})
       /\ (last.op = "progress" /\ IsProgressStep)
          => (last'.ret = 0 /\ matches' = matches /\ last'.saved = {})
       /\ (last'.op \in {"create", "progress"} /\ NoDuplicateKnockoutPairing(matches))
          => NoDuplicateKnockoutPairing(matches')
      ]_vars

\* The same list of four was passed again and its two pairings were found.
C9_Witness ==
    /\ last.op = "create"
    /\ last.ret = 0
    /\ Len(last.teams) = 4
    /\ last.saved = {}
    /\ Cardinality({i \in 1..Len(matches) :
                       matches[i].round_name = <<KnockoutPrefix, 4>>}) = 2

\* ------------------------------------------------------- set scores: claims
\* C10: the cached team_one_sets_won, team_two_sets_won and winner of every
\* match equal the values recomputed from its current set scores.
C10_TotalsFollowSetScores ==
    \A i \in 1..Len(matches) : UpdateTotals(matches, set_scores, i)[i] = matches[i]

\* --------------------------------------------------- update_totals: claims
\* C11: update_totals sets each side's sets won to the number of sets in which
\* its games strictly exceed the other side's (a set of equal games counts for
\* neither, whatever its tie-break points), and the winner to the side with
\* more sets won, or to none when the counts are equal or there are no sets.
C11_TotalsCountStrictlyWonSets ==
    [][last'.op = "update_totals" =>
        LET m == matches'[1]
            sets == SetScoresOf(set_scores, 1)
            one == {s \in sets : s.team_one_games > s.team_two_games}
            two == {s \in sets : s.team_two_games > s.team_one_games}
            drawn == {s \in sets : s.team_one_games = s.team_two_games}
        IN  /\ m.team_one_sets_won = Cardinality(one)
            /\ m.team_two_sets_won = Cardinality(two)
            /\ m.team_one_sets_won + m.team_two_sets_won
                  = Cardinality(sets) - Cardinality(drawn)
            /\ Cardinality(one) > Cardinality(two) => m.winner = m.team_one
            /\ Cardinality(two) > Cardinality(one) => m.winner = m.team_two
            /\ Cardinality(one) = Cardinality(two) => m.winner = None
            /\ sets = {} => m.winner = None /\ m.team_one_sets_won = 0
                            /\ m.team_two_sets_won = 0
            /\ set_scores' = set_scores]_vars

\* The sets 6-4, 4-6 and 10-8 (tie-break 10-8) give 2, 1 and team one as winner.
C11_Witness ==
    /\ last.op = "update_totals"
    /\ set_scores = {TotalsRow(1, <<6, 4>>, <<FALSE, NoPoints, NoPoints>>),
                     TotalsRow(2, <<4, 6>>, <<FALSE, NoPoints, NoPoints>>),
                     TotalsRow(3, <<10, 8>>, <<TRUE, 10, 8>>)}
    /\ matches[1].team_one_sets_won = 2
    /\ matches[1].team_two_sets_won = 1
    /\ matches[1].winner = matches[1].team_one

\* ------------------------------------------------- build_standings: claims
IsStandingsStep == last'.op = "standings"

TeamsInMatches(ms) ==
    {ms[i].team_one : i \in 1..Len(ms)} \cup {ms[i].team_two : i \in 1..Len(ms)}

\* a >= b in the order of tuples
LexAtLeast(a, b) == a = b \/ LexLess(b, a)

C13_UndecidedMatchIsNoLoss ==
    [][IsStandingsStep =>
        \A k \in 1..Len(last'.rows) :
            LET row == last'.rows[k]
                mine == {i \in 1..Len(matches) :
                            row.team \in {matches[i].team_one, matches[i].team_two}}
            IN  /\ row.matches = Cardinality(mine)
                /\ row.wins + row.losses
                      = Cardinality({i \in mine : matches[i].winner # None})]_vars

\* ---------------------------------------------- qualifier selection: claims
IsQualifiersStep == last'.op = "qualifiers"

\* The standings row of team t.
RowOf(ms, t) ==
    LET rows == BuildStandings(ms)
    IN  rows[CHOOSE k \in 1..Len(rows) : rows[k].team = t]

\* The teams of label l that have a standings row.
RankedGroup(es, ms, l) ==
    {t \in TeamsInMatches(ms) \cap EnrolledIds(es) : EntryOf(es, t).group_label = l}

RankedLabels(es, ms) ==
    {l \in LabelsCarried(es) \ {NoLabel} : RankedGroup(es, ms, l) # {}}

\* (wins, gamesFor, gameBalance) of every team with a standings row.
RankKeys(ms) ==
    LET rows == BuildStandings(ms)
    IN  [t \in {rows[k].team : k \in 1..Len(rows)} |->
            LET row == rows[CHOOSE k \in 1..Len(rows) : rows[k].team = t]
            IN  <<row.wins, row.games_for, row.game_balance>>]

\* C14: from each group of standings rows the top s rows by (wins, gamesFor,
\* gameBalance) are taken, s being defaultSlots, or smallGroupSlots for a
\* group smaller than expectedGroupSize, clamped to [1, group size]; every
\* group gives between 1 and group-size teams and no team is returned twice.
C14_TopSlotsPerGroup ==
    [][IsQualifiersStep =>
        LET q == last'.rows
            keys == RankKeys(matches)
            default_slots == grouping_form[2]
            small_group_slots == grouping_form[3]
            expected_group_size == grouping_form[1]
        IN  /\ \A j, k \in 1..Len(q) : q[j] = q[k] => j = k
            /\ \A k \in 1..Len(q) :
                  \E l \in RankedLabels(enrolled_teams, matches) :
                      q[k] \in RankedGroup(enrolled_teams, matches, l)
            /\ \A l \in RankedLabels(enrolled_teams, matches) :
                  LET group == RankedGroup(enrolled_teams, matches, l)
                      size == Cardinality(group)
                      wanted == IF size < expected_group_size
                                THEN small_group_slots ELSE default_slots
                      s == IF wanted < 1 THEN 1
                           ELSE IF wanted > size THEN size ELSE wanted
                      taken == Range(q) \cap group
                  IN  /\ Cardinality(taken) = s
                      /\ Cardinality(taken) >= 1
                      /\ Cardinality(taken) <= size
                      /\ \A t \in taken, u \in group \ taken :
                            LexAtLeast(keys[t], keys[u])]_vars

\* A group smaller than expected gives its small-group quota, another group
\* is cut down to its size, and a quota of 0 still gives one team.
C14_Witness ==
    /\ last.op = "qualifiers"
    /\ Len(last.rows) >= 2
    /\ \E l \in RankedLabels(enrolled_teams, matches) :
          LET size == Cardinality(RankedGroup(enrolled_teams, matches, l))
          IN  /\ size < grouping_form[1]
              /\ grouping_form[3] # grouping_form[2]
              /\ grouping_form[3] >= 1
              /\ grouping_form[3] < size
              /\ Cardinality(Range(last.rows)
                    \cap RankedGroup(enrolled_teams, matches, l)) = grouping_form[3]
    /\ \A i \in 1..Len(matches) : matches[i].winner # None

\* C15: the returned list is in ascending order of group label and, within a
\* group, in the order of the in-group rank; it is not merged by rank over
\* all groups; and the first knockout round built from it pairs its first two
\* entries.
C15_QualifiersByGroupThenRank ==
    [][/\ IsQualifiersStep =>
            LET q == last'.rows
                keys == RankKeys(matches)
            IN  \A j, k \in 1..Len(q) : j < k =>
                    LET lj == EntryOf(enrolled_teams, q[j]).group_label
                        lk == EntryOf(enrolled_teams, q[k]).group_label
                    IN  /\ LabelRank(lj) <= LabelRank(lk)
                        /\ lj = lk => LexAtLeast(keys[q[j]], keys[q[k]])
       /\ (last'.op = "progress" /\ last'.ret > 0) =>
            LET q == CollectGroupQualifiers(enrolled_teams, matches,
                         grouping_form[2], grouping_form[3], grouping_form[1])
                first == matches'[Len(matches) + 1]
            IN  /\ last'.teams = q
                /\ first.team_one = q[1]
                /\ first.team_two = q[2]]_vars

\* Both teams of group A precede the winner of group B, which has more wins
\* than the second team of group A.
C15_Witness ==
    /\ last.op = "qualifiers"
    /\ Len(last.rows) >= 3
    /\ EntryOf(enrolled_teams, last.rows[2]).group_label = GroupLabel(1)
    /\ EntryOf(enrolled_teams, last.rows[3]).group_label = GroupLabel(2)
    /\ RowOf(matches, last.rows[3]).wins > RowOf(matches, last.rows[2]).wins

\* ------------------------------------------------------------ teams: claims
\* The gender rule of a division for two genders.
GenderRuleHolds(division, g1, g2) ==
    CASE division = DivisionMale ->
             g1 \in {GenderMale, GenderMixed} /\ g2 \in {GenderMale, GenderMixed}
      [] division = DivisionFemale ->
             g1 \in {GenderFemale, GenderMixed} /\ g2 \in {GenderFemale, GenderMixed}
      [] OTHER ->
             /\ \E g \in {g1, g2} : g \in {GenderMale, GenderMixed}
             /\ \E g \in {g1, g2} : g \in {GenderFemale, GenderMixed}

\* What C17 asks of a row, the players taken in either order.
TeamRulesHold(ps, t) ==
    /\ t.player_one # t.player_two
    /\ ps[t.player_one].category = t.category
    /\ ps[t.player_two].category = t.category
    /\ GenderRuleHolds(t.division, ps[t.player_one].gender, ps[t.player_two].gender)

\* C17: every Team row saved has two distinct players with the lower id in
\* slot one, both of the team's category, and meets the gender rule of its
\* division; a save that would break one of these fails with a validation
\* error and stores nothing.
C17_SavedTeamsAreValid ==
    [][last'.op = "team_save" =>
        LET t == last'.arg
        IN  /\ ~TeamRulesHold(participants, t) =>
                  last'.error # "" /\ team_table' = team_table
            /\ last'.error # "" => team_table' = team_table
            /\ last'.error = "" =>
                  /\ Len(team_table') = Len(team_table) + 1
                  /\ SubSeq(team_table', 1, Len(team_table)) = team_table
                  /\ LET row == team_table'[Len(team_table')]
                     IN  /\ {row.player_one, row.player_two}
                               = {t.player_one, t.player_two}
                         /\ row.category = t.category
                         /\ row.division = t.division
            /\ \A i \in 1..Len(team_table') :
                  /\ TeamRulesHold(participants, team_table'[i])
                  /\ team_table'[i].player_one < team_table'[i].player_two]_vars

\* A mixed team given with the higher id first is stored, players swapped, as
\* the second row of the table.
C17_Witness ==
    /\ last.op = "team_save"
    /\ last.error = ""
    /\ last.arg.player_one > last.arg.player_two
    /\ last.arg.division = DivisionMixed
    /\ Len(team_table) = 2

\* ---------------------------------------------------------- pairing: claims
IsManualPairStep == last'.op = "manual_pair"

\* The Team rows of a table that share players (in any order), category and
\* division with the row i.
SameTeamKey(ts, i) ==
    {j \in 1..Len(ts) :
        /\ {ts[j].player_one, ts[j].player_two}
             = {ts[i].player_one, ts[i].player_two}
        /\ ts[j].category = ts[i].category
        /\ ts[j].division = ts[i].division}

EnrollmentsOf(es, t) == {i \in 1..Len(es) : es[i].team = t}

\* C16: Pairing the same two participants of a tournament again, as (A,B) or
\* as (B,A), resolves to the same Team and the same enrollment.  After every
\* step there is one Team row per players, category and division and one
\* enrollment per team, and after every pairing that succeeded the same
\* request, in the order given and in the other order, returns the team it
\* returned and leaves the Team, registration and enrollment tables as they
\* are.
C16_RepairingReturnsSameTeam ==
    [][/\ \A i \in 1..Len(team_table') : SameTeamKey(team_table', i) = {i}
       /\ \A i \in 1..Len(enrolled_teams') :
             EnrollmentsOf(enrolled_teams', enrolled_teams'[i].team) = {i}
       /\ (IsManualPairStep /\ last'.error = "") =>
            /\ last'.ret \in 1..Len(team_table')
            /\ Cardinality(EnrollmentsOf(enrolled_teams', last'.ret)) = 1
            /\ {team_table'[last'.ret].player_one,
                team_table'[last'.ret].player_two}
                 = {last'.arg[1], last'.arg[2]}
            /\ \A order \in {<<1, 2>>, <<2, 1>>} :
                  LET again == CreateTournamentTeam(
                                   participants', team_table',
                                   tournament_participants', enrolled_teams',
                                   tournament', last'.arg[order[1]],
                                   last'.arg[order[2]], last'.arg[3])
                  IN  /\ again.error = ""
                      /\ again.team = last'.ret
                      /\ again.team_table = team_table'
                      /\ again.tournament_participants
                           = tournament_participants'
                      /\ again.enrolled_teams = enrolled_teams']_vars

\* The pair given with the higher id first is paired a second time: the call
\* returns the one Team row and creates no enrollment.
C16_Witness ==
    /\ last.op = "manual_pair"
    /\ last.error = ""
    /\ last.arg[1] > last.arg[2]
    /\ last.saved = {}
    /\ last.ret = 1
    /\ Len(team_table) = 1
    /\ Len(enrolled_teams) = 1
    /\ tournament_participants = <<1, 2>>

\* Two participants that cannot form a team of the tournament: the same
\* participant twice, different categories, or genders the division forbids.
InvalidPair(ps, tn, player_one, player_two) ==
    \/ player_one = player_two
    \/ ps[player_one].category # ps[player_two].category
    \/ ~GenderRuleHolds(tn.division, ps[player_one].gender,
                        ps[player_two].gender)

\* C18: A manual pairing of two participants that are the same participant,
\* have different categories or violate the division's gender rule fails
\* with a validation error and creates no Team, no registration and no
\* enrollment.
C18_InvalidPairFailsUnchanged ==
    [][(/\ IsManualPairStep
        /\ InvalidPair(participants, tournament, last'.arg[1], last'.arg[2]))
          => /\ last'.error # ""
             /\ team_table' = team_table
             /\ tournament_participants' = tournament_participants
             /\ enrolled_teams' = enrolled_teams]_vars

\* ------------------------------------------------ automatic pairing: claims
IsAutoPairStep == last'.op = "auto_pair"

\* The Team rows of a table whose players are a and b, in either order.
TeamsOfPlayers(ts, a, b) ==
    {i \in 1..Len(ts) : {ts[i].player_one, ts[i].player_two} = {a, b}}

\* The positions k of the consecutive pairs (2k-1, 2k) of a list.
PairPositions(available) == 1..(Len(available) \div 2)

\* C19: In a tournament of a single-gender division the automatic pairing
\* of n unpaired participants attempts the n \div 2 consecutive pairs of the
\* list.  A pair that fails validation is counted as skipped and gets no
\* team; every pair that is valid, before or after a failed one, gets its
\* team and its enrollment; created + skipped = n \div 2.
C19_FailedPairIsSkippedNotFatal ==
    [][IsAutoPairStep =>
         LET available == last'.rows
             failing == {k \in PairPositions(available) :
                            InvalidPair(participants, tournament,
                                        available[2 * k - 1], available[2 * k])}
         IN  /\ Range(available)
                  = Range(ParticipantsWithoutTeam(team_table,
                                                  tournament_participants,
                                                  enrolled_teams))
             /\ last'.ret + last'.skipped = Len(available) \div 2
             /\ last'.skipped = Cardinality(failing)
             /\ last'.ret = Cardinality(last'.saved)
             /\ Len(team_table') = Len(team_table) + last'.ret
             /\ \A k \in PairPositions(available) :
                   LET made == TeamsOfPlayers(team_table', available[2 * k - 1],
                                              available[2 * k])
                   IN  IF k \in failing THEN made = {}
                       ELSE /\ Cardinality(made) = 1
                            /\ made \subseteq last'.saved]_vars

\* Four participants are paired; the first pair of the list is invalid and
\* skipped, the second is valid and is the one team created and enrolled.
C19_Witness ==
    /\ last.op = "auto_pair"
    /\ Len(last.rows) = 4
    /\ InvalidPair(participants, tournament, last.rows[1], last.rows[2])
    /\ ~InvalidPair(participants, tournament, last.rows[3], last.rows[4])
    /\ last.ret = 1
    /\ last.skipped = 1
    /\ Len(team_table) = 1
    /\ TeamsOfPlayers(team_table, last.rows[3], last.rows[4]) = {1}
    /\ EnrolledIds(enrolled_teams) = {1}

\* The genders of the two players of a Team row.
TeamGenders(ps, t) == {ps[t.player_one].gender, ps[t.player_two].gender}

\* The automatic pairing is given the whole pool.
PairsWholePool == IsAutoPairStep /\ Len(last'.rows) = Len(MixedPool)

\* C20: The mixed automatic pairing of a pool of 3 male, 1 female and 2
\* flexible participants pairs male with female once and then male with
\* flexible twice, which drains the males and the flexible participants
\* alike: nobody is left unpaired and it returns created = 3, skipped = 0.
C20_MixedPoolIsPairedCompletely ==
    [][PairsWholePool =>
         /\ last'.ret = 3
         /\ last'.skipped = 0
         /\ Len(team_table') = 3
         /\ TeamGenders(participants, team_table'[1])
              = {GenderMale, GenderFemale}
         /\ TeamGenders(participants, team_table'[2])
              = {GenderMale, GenderMixed}
         /\ TeamGenders(participants, team_table'[3])
              = {GenderMale, GenderMixed}
         /\ EnrolledIds(enrolled_teams') = {1, 2, 3}
         /\ ParticipantsWithoutTeam(team_table', tournament_participants',
                                    enrolled_teams') = <<>>]_vars

\* The shuffled pool has been paired into three teams.
C20_Witness ==
    /\ last.op = "auto_pair"
    /\ last.arg = TRUE
    /\ Len(last.rows) = Len(MixedPool)
    /\ last.ret = 3
    /\ Len(enrolled_teams) = 3

\* C20 as stated: the pairing of the pool leaves one flexible participant
\* unpaired and returns created = 3, skipped = 1.
C20_OneFlexibleLeftOver ==
    [][PairsWholePool =>
         /\ last'.ret = 3
         /\ last'.skipped = 1
         /\ LET left == ParticipantsWithoutTeam(team_table',
                                                tournament_participants',
                                                enrolled_teams')
            IN  /\ Len(left) = 1
                /\ participants[left[1]].gender = GenderMixed]_vars

\* The participants of a list that have the gender g.
CountOf(ps, available, g) ==
    Cardinality({i \in Range(available) : ps[i].gender = g})

\* The genders of an attempted pair, in the order of the pair.
PairGenders(ps, pair) == <<ps[pair[1]].gender, ps[pair[2]].gender>>

\* C21: For a pool of m male, f female and x flexible participants the
\* mixed automatic pairing forms min(m, f) male-female pairs, then
\* male-flexible pairs, then flexible-female pairs, then flexible-flexible
\* pairs from what remains.  Every pair satisfies the gender rule of the mixed
\* division, nobody is in two pairs, those left over are all male, all female
\* or one flexible participant, and when no pair fails validation created is
\* the number of pairs and skipped the number of participants left over.
C21_MixedPairingIsGreedyByGender ==
    [][(IsAutoPairStep /\ tournament.division = DivisionMixed) =>
         LET available == last'.rows
             pairs == last'.teams
             m == CountOf(participants, available, GenderMale)
             f == CountOf(participants, available, GenderFemale)
             x == CountOf(participants, available, GenderMixed)
             male_female == Min(m, f)
             male_flex == Min(m - male_female, x)
             flex_female == Min(f - male_female, x - male_flex)
             flex_flex == (x - male_flex - flex_female) \div 2
             paired == UNION {{pairs[k][1], pairs[k][2]} : k \in 1..Len(pairs)}
             left == Range(available) \ paired
             failing == {k \in 1..Len(pairs) :
                            InvalidPair(participants, tournament,
                                        pairs[k][1], pairs[k][2])}
         IN  /\ Len(pairs) = male_female + male_flex + flex_female + flex_flex
             /\ \A k \in 1..Len(pairs) :
                   /\ PairGenders(participants, pairs[k])
                        = IF k <= male_female
                          THEN <<GenderMale, GenderFemale>>
                          ELSE IF k <= male_female + male_flex
                          THEN <<GenderMale, GenderMixed>>
                          ELSE IF k <= male_female + male_flex + flex_female
                          THEN <<GenderMixed, GenderFemale>>
                          ELSE <<GenderMixed, GenderMixed>>
                   /\ GenderRuleHolds(DivisionMixed,
                                      participants[pairs[k][1]].gender,
                                      participants[pairs[k][2]].gender)
             /\ paired \subseteq Range(available)
             /\ Cardinality(paired) = 2 * Len(pairs)
             /\ \/ \A i \in left : participants[i].gender = GenderMale
                \/ \A i \in left : participants[i].gender = GenderFemale
                \/ /\ Cardinality(left) = 1
                   /\ \A i \in left : participants[i].gender = GenderMixed
             /\ last'.ret = Len(pairs) - Cardinality(failing)
             /\ last'.skipped = Cardinality(failing) + Cardinality(left)
             /\ failing = {} =>
                   /\ last'.ret = Len(pairs)
                   /\ last'.skipped = Cardinality(left)
                   /\ \A k \in 1..Len(pairs) :
                         \E t \in last'.saved :
                             {team_table'[t].player_one,
                              team_table'[t].player_two}
                               = {pairs[k][1], pairs[k][2]}]_vars

\* One female and three flexible participants: a flexible-female pair, then
\* a flexible-flexible pair, both created and nobody left.
C21_Witness ==
    /\ last.op = "auto_pair"
    /\ tournament.division = DivisionMixed
    /\ Len(last.teams) = 2
    /\ PairGenders(participants, last.teams[1]) = <<GenderMixed, GenderFemale>>
    /\ PairGenders(participants, last.teams[2]) = <<GenderMixed, GenderMixed>>
    /\ last.ret = 2
    /\ last.skipped = 0

\* ------------------------------------------------- group assignment: claims
IsAssignStep == last'.op = "assign"

\* The positions, counted from 0, that the alphabet reaches with groups of g.
Lettered(g) == AlphabetSize * g

\* C22: After a group assignment with group size g the enrollment at
\* position i (from 0, in the order existing label, team name, creation)
\* carries the label of letter i div g, and an enrollment at a position from
\* 26 * g on is left without a label.  With at most 26 * g enrollments every
\* one is labelled, no group has more than g teams, every group but the one of
\* the last letter has exactly g, and the letters run from A without a gap.
C22_LabelIsPositionDivSize ==
    [][IsAssignStep =>
         LET g == last'.arg
             order == GroupingOrder(enrolled_teams)
             n == Len(enrolled_teams)
             used == LabelsCarried(enrolled_teams')
             last_letter == ((n - 1) \div g) + 1
         IN  /\ \A k \in 1..n :
                   enrolled_teams'[order[k]].group_label
                     = IF k - 1 < Lettered(g)
                       THEN GroupLabel(((k - 1) \div g) + 1)
                       ELSE NoLabel
             /\ (n > 0 /\ n <= Lettered(g)) =>
                   /\ used = {GroupLabel(l) : l \in 1..last_letter}
                   /\ \A l \in 1..last_letter :
                         LET size == Cardinality(
                                         TeamsCarrying(enrolled_teams',
                                                       GroupLabel(l)))
                         IN  /\ size <= g
                             /\ l < last_letter => size = g]_vars

\* C23: A group assignment returns the number of enrollments whose label
\* changed and writes only those, so an assignment that follows another with
\* the same group size changes no label and returns 0.
C23_SecondAssignmentChangesNothing ==
    [][IsAssignStep =>
         LET changed == {i \in 1..Len(enrolled_teams) :
                            enrolled_teams'[i].group_label
                              # enrolled_teams[i].group_label}
         IN  /\ last'.ret = Cardinality(changed)
             /\ last'.saved = {enrolled_teams[i].team : i \in changed}
             /\ (last.op = "assign" /\ last.arg = last'.arg) =>
                   /\ last'.ret = 0
                   /\ enrolled_teams' = enrolled_teams]_vars

\* ------------------------------------------- actions: the point sequences
TeamOnePosition == 1

TeamTwoPosition == 2

TeamPositions == {TeamOnePosition, TeamTwoPosition}

MaxPointTokens == 3

\* The tokens as typed: plain, padded, lower-cased, blank, and one outside the
\* allowed set.
RawTokens == {"15", "30", " 30 ", "40", "45", "game", " ", "50"}

RECURSIVE TokenSeqs(_)
TokenSeqs(n) ==
    IF n = 0 THEN {<<>>}
    ELSE TokenSeqs(n - 1) \cup {Append(q, v) : q \in {r \in TokenSeqs(n - 1) : Len(r) = n - 1}, v \in RawTokens}

\* The sequences a match holds before the call.
StoredSequences == {<<>>, <<"40", "GAME">>}

\* set_points_for_team, had it stored the tokens one by one until the first
\* token it rejects.
SetPointsForTeam_StoresValidPrefix(m, team_position, values) ==
    LET bad == {k \in 1..Len(values) :
                   StripUpper(values[k]) # "" /\ StripUpper(values[k]) \notin AllowedPoints}
        upto == IF bad = {} THEN Len(values)
                ELSE (CHOOSE k \in bad : \A j \in bad : k <= j) - 1
        normalized == NormalizePointSequence(SubSeq(values, 1, upto))
    IN  [error |-> IF bad = {} THEN "" ELSE "InvalidPointToken",
         match |-> IF team_position = TeamOnePosition
                   THEN [m EXCEPT !.team_one_point_sequence = normalized]
                   ELSE [m EXCEPT !.team_two_point_sequence = normalized]]

\* set_points_for_team, had it written the same side for either position.
SetPointsForTeam_AlwaysTeamOne(m, team_position, values) ==
    IF InvalidPointToken(values)
    THEN [error |-> "InvalidPointToken", match |-> m]
    ELSE [error |-> "",
          match |-> [m EXCEPT !.team_one_point_sequence = NormalizePointSequence(values)]]

\* Match.set_points_for_team: the sequence is normalized first, so a rejected
\* token raises before either field is assigned.
SetPointsForTeam(m, team_position, values) ==
    IF InvalidPointToken(values)
    THEN [error |-> "InvalidPointToken", match |-> m]
    ELSE LET normalized == NormalizePointSequence(values)
         IN  [error |-> "",
              match |-> IF team_position = TeamOnePosition
                        THEN [m EXCEPT !.team_one_point_sequence = normalized]
                        ELSE [m EXCEPT !.team_two_point_sequence = normalized]]

\* Match.accumulated_points(team_position)
AccumulatedPointsOf(m, team_position) ==
    AccumulatedPoints(IF team_position = TeamOnePosition
                      THEN m.team_one_point_sequence
                      ELSE m.team_two_point_sequence)

\* match.set_points_for_team(team_position, values) on the match at index i.
SetPointsCall(i, team_position, values) ==
    /\ last.op = "none"
    /\ \E r \in {SetPointsForTeam(matches[i], team_position, values)} :
          /\ matches' = [matches EXCEPT ![i] = r.match]
          /\ last' = [NoOp EXCEPT !.op = "set_points",
                                  !.arg = <<team_position, values>>,
                                  !.error = r.error]
    /\ UNCHANGED roster
    /\ UNCHANGED <<requests, guide>>
    /\ UNCHANGED <<enrolled_teams, set_scores, grouping_form, team_list>>

\* match.accumulated_points(team_position) after the call above.
AccumulatedPointsCall(i, team_position) ==
    /\ last.op = "set_points"
    /\ last' = [NoOp EXCEPT !.op = "accumulated_points",
                            !.arg = <<team_position, last.arg[2]>>,
                            !.ret = AccumulatedPointsOf(matches[i], team_position),
                            !.error = last.error]
    /\ UNCHANGED roster
    /\ UNCHANGED <<requests, guide>>
    /\ UNCHANGED <<enrolled_teams, matches, set_scores, grouping_form, team_list>>

InitPoints ==
    /\ enrolled_teams = <<NewTournamentTeam(1), NewTournamentTeam(2)>>
    /\ \E one \in StoredSequences, two \in StoredSequences :
          matches = <<[NewMatch(DefaultRoundName, 1, 2) EXCEPT
                          !.team_one_point_sequence = one,
                          !.team_two_point_sequence = two]>>
    /\ set_scores = {}
    /\ grouping_form = DefaultGroupingForm
    /\ team_list = <<>>
    /\ last = NoOp
    /\ requests = NoRequests
    /\ guide = NoGuide
    /\ RosterLeftOut

NextPoints ==
    \/ \E team_position \in TeamPositions, values \in TokenSeqs(MaxPointTokens) :
          SetPointsCall(1, team_position, values)
    \/ \E team_position \in TeamPositions : AccumulatedPointsCall(1, team_position)

SpecPoints == InitPoints /\ [][NextPoints]_vars

\* --------------------------------------------- claims: the point sequences
IsSetPointsStep == last'.op = "set_points"

\* The token as the claim reads it: trimmed and upper-cased.
Canonical(v) ==
    CASE v = "15" -> "15" [] v = "30" -> "30" [] v = " 30 " -> "30" [] v = "40" -> "40"
      [] v = "45" -> "45" [] v = "game" -> "GAME" [] v = " " -> ""
      [] v = "50" -> "50"

AllTokensValid(values) ==
    \A k \in 1..Len(values) : Canonical(values[k]) \in {"15", "30", "40", "45", "GAME", ""}

NonBlank(values) == {k \in 1..Len(values) : Canonical(values[k]) # ""}

\* stored holds the non-blank tokens of values, canonical, in their order.
StoresNonBlankInOrder(stored, values) ==
    /\ Len(stored) = Cardinality(NonBlank(values))
    /\ \A k \in NonBlank(values) :
          stored[Cardinality({j \in NonBlank(values) : j <= k})] = Canonical(values[k])

SideOf(m, team_position) ==
    IF team_position = 1 THEN m.team_one_point_sequence ELSE m.team_two_point_sequence

Occurrences(stored, v) == Cardinality({k \in 1..Len(stored) : stored[k] = v})

PointTotal(stored) ==
    15 * Occurrences(stored, "15") + 30 * Occurrences(stored, "30")
        + 40 * Occurrences(stored, "40") + 45 * Occurrences(stored, "45")
        + 60 * Occurrences(stored, "GAME")

\* C24: when every token is, trimmed and without regard to case, one of 15, 30,
\* 40, 45, GAME or blank, set_points_for_team stores the non-blank tokens
\* upper-cased in their order and leaves the other side as it was, and
\* accumulated_points of a side is the sum of the values of its stored tokens
\* (GAME counting 60): 15, 30, game is stored as 15, 30, GAME and sums to 105.
C24_ValidTokensAreStoredAndSummed ==
    [][/\ (IsSetPointsStep /\ AllTokensValid(last'.arg[2])) =>
             /\ last'.error = ""
             /\ StoresNonBlankInOrder(SideOf(matches'[1], last'.arg[1]), last'.arg[2])
             /\ SideOf(matches'[1], 3 - last'.arg[1]) = SideOf(matches[1], 3 - last'.arg[1])
             /\ (last'.arg[2] = <<"15", "30", "game">> =>
                    SideOf(matches'[1], last'.arg[1]) = <<"15", "30", "GAME">>)
       /\ last'.op = "accumulated_points" =>
             /\ last'.ret = PointTotal(SideOf(matches[1], last'.arg[1]))
             /\ (last.arg = <<last'.arg[1], <<"15", "30", "game">>>> => last'.ret = 105)
      ]_vars

C24_Witness ==
    /\ last.op = "accumulated_points"
    /\ last.arg = <<2, <<"15", "30", "game">>>>
    /\ matches[1].team_two_point_sequence = <<"15", "30", "GAME">>
    /\ matches[1].team_one_point_sequence = <<"40", "GAME">>
    /\ last.ret = 105

\* C25: a call with a non-blank token outside the allowed set fails with
\* InvalidPointToken and leaves both stored sequences as they were, also when
\* valid tokens come before the rejected one.
C25_InvalidTokenFailsUnchanged ==
    [][(IsSetPointsStep /\ ~AllTokensValid(last'.arg[2])) =>
          /\ last'.error = "InvalidPointToken"
          /\ matches' = matches
      ]_vars

C25_Witness ==
    /\ last.op = "set_points"
    /\ last.arg = <<1, <<"15", "game", "50">>>>
    /\ last.error = "InvalidPointToken"
    /\ matches[1].team_one_point_sequence = <<"40", "GAME">>

\* ------------------------------------------ actions: tie-break points
\* The rows saved here: a set won 6-4 or drawn 6-6, with each tie-break input.
TieBreakRows(i) == {s \in SetScoreInputs(i) : s.team_one_games = 6}

InitTieBreak == InitScore

\* The three ways a SetScore row is written or removed: SetScore.save of a new
\* or a changed row, a row deleted, and the set-score formset of
\* match_result_update.
NextTieBreak ==
    \/ \E s \in TieBreakRows(1) : SaveNewSetScore(s)
    \/ \E old \in set_scores, s \in TieBreakRows(1) : SaveChangedSetScore(old, s)
    \/ \E old \in set_scores : DeleteSetScore(old)
    \/ \E deleted \in {{}} \cup {{o} : o \in set_scores},
          added \in {{}} \cup {{s} : s \in TieBreakRows(1)} :
          MatchResultUpdate(1, deleted, added, <<>>, <<>>)

SpecTieBreak == InitTieBreak /\ [][NextTieBreak]_vars

\* ------------------------------------------------- claims: tie-break points
BothPresent(s) ==
    s.team_one_tie_break_points # NoPoints /\ s.team_two_tie_break_points # NoPoints

BothNull(s) ==
    s.team_one_tie_break_points = NoPoints /\ s.team_two_tie_break_points = NoPoints

IsSaveSetStep == last'.op = "save_set"

\* The row a save step stored: the one with the set number of the input.
StoredBy(ss, s) == {o \in ss : o.match = s.match /\ o.set_number = s.set_number}

\* C26: every stored set score has both tie-break point counts when its
\* tie-break was played and neither when it was not; a save with the flag off
\* stores the row without points whatever points were given, and a save with
\* the flag on and a point count missing fails with MissingTieBreakPoints,
\* stores nothing and leaves the totals of the match as they were.
C26_TieBreakPointsFollowTheFlag ==
    /\ [](\A s \in set_scores : IF s.tie_break_played THEN BothPresent(s) ELSE BothNull(s))
    /\ [][IsSaveSetStep =>
            /\ (last'.error = "" /\ ~last'.arg.tie_break_played) =>
                   /\ StoredBy(set_scores', last'.arg) # {}
                   /\ \A o \in StoredBy(set_scores', last'.arg) :
                         /\ BothNull(o)
                         /\ ~o.tie_break_played
                         /\ o.team_one_games = last'.arg.team_one_games
                         /\ o.team_two_games = last'.arg.team_two_games
            /\ (last'.arg.tie_break_played /\ ~BothPresent(last'.arg)) =>
                   /\ last'.error = "MissingTieBreakPoints"
                   /\ set_scores' = set_scores
                   /\ matches' = matches
         ]_vars

\* A set stored without points although points were given, and a later save
\* with the flag on and one count missing that failed on a match with a winner.
C26_Witness ==
    /\ last.op = "save_set"
    /\ last.error = "MissingTieBreakPoints"
    /\ last.arg.team_one_tie_break_points # NoPoints
    /\ matches[1].winner # None
    /\ \E s \in set_scores : ~s.tie_break_played /\ BothNull(s)
    /\ \E s \in set_scores : s.tie_break_played /\ BothPresent(s)

\* ------------------------- actions: two group-match generations interleaved
MaxRaceTeams == 3

\* Two requests: nothing in the views or the models serialises them (no
\* transaction, no lock, no unique constraint on a match's round and teams).
RequestIds == {1, 2}

\* A request that has not begun.  pc: where it is; todo: the pairs its loops
\* have still to visit, as (round, team one, team two); created: its counter;
\* checked_at: how many matches existed when it ran its last exists() query;
\* teams: the list it builds a knockout round from; error: what it returns.
IdleRequest ==
    [pc |-> "idle", todo |-> <<>>, created |-> 0, checked_at |-> 0,
     teams |-> <<>>, error |-> ""]

AfterPair(todo) == IF Tail(todo) = <<>> THEN "done" ELSE "check"

\* _generate_group_round_robin_matches up to its loops: the entries are read
\* and the groups built.
GenerateBegin(r) ==
    /\ requests[r].pc = "idle"
    /\ \E fx \in {Fixtures(enrolled_teams, GroupLabelsInOrder(enrolled_teams))} :
          requests' = [requests EXCEPT ![r] =
              [@ EXCEPT !.pc = IF fx = <<>> THEN "done" ELSE "check", !.todo = fx]]
    /\ UNCHANGED roster
    /\ UNCHANGED guide
    /\ UNCHANGED <<enrolled_teams, matches, set_scores, grouping_form, team_list, last>>

\* exists = tournament.matches.filter(round_name=label).filter(...).exists(),
\* and `continue` when the pair has a match.
GenerateCheck(r) ==
    /\ requests[r].pc = "check"
    /\ LET f == Head(requests[r].todo)
       IN  requests' = [requests EXCEPT ![r] =
               IF FixtureMissing(matches, f[1], f[2], f[3])
               THEN [@ EXCEPT !.pc = "insert", !.checked_at = Len(matches)]
               ELSE [@ EXCEPT !.pc = AfterPair(requests[r].todo), !.todo = Tail(@)]]
    /\ UNCHANGED roster
    /\ UNCHANGED guide
    /\ UNCHANGED <<enrolled_teams, matches, set_scores, grouping_form, team_list, last>>

\* Match.objects.create(...); created += 1
GenerateInsert(r) ==
    /\ requests[r].pc = "insert"
    /\ LET f == Head(requests[r].todo)
       IN  matches' = Append(matches, NewMatch(f[1], f[2], f[3]))
    /\ requests' = [requests EXCEPT ![r] =
           [@ EXCEPT !.pc = AfterPair(requests[r].todo), !.todo = Tail(@),
                     !.created = @ + 1]]
    /\ UNCHANGED roster
    /\ UNCHANGED guide
    /\ UNCHANGED <<enrolled_teams, set_scores, grouping_form, team_list, last>>

\* Teams enrolled and put into groups of the default size; no match yet.
InitGenerateRace ==
    /\ \E n \in 0..MaxRaceTeams :
          enrolled_teams = AssignGroups(Enrolled(n), DefaultGroupSize).entries
    /\ matches = <<>>
    /\ set_scores = {}
    /\ grouping_form = DefaultGroupingForm
    /\ team_list = <<>>
    /\ last = NoOp
    /\ requests = [r \in RequestIds |-> IdleRequest]
    /\ guide = NoGuide
    /\ RosterLeftOut

NextGenerateRace ==
    \/ \E r \in RequestIds : GenerateBegin(r)
    \/ \E r \in RequestIds : GenerateCheck(r)
    \/ \E r \in RequestIds : GenerateInsert(r)

SpecGenerateRace == InitGenerateRace /\ [][NextGenerateRace]_vars

\* ------------------------------------- claims: interleaved group generation
Inserts(r) == requests[r].pc = "insert" /\ requests'[r].pc # "insert"

\* C27: nothing serialises two group-match generations: each checks a pair and
\* inserts its match in separate steps, so a pair can get one match from each
\* invocation.  A match is only ever inserted by an invocation whose own check
\* found the pair without a match, every match the pair has at the insert was
\* created after that check, and no pair gets more matches than there are
\* invocations.
C27_DuplicateOnlyBetweenCheckAndInsert ==
    /\ [](\A i \in 1..Len(matches) :
             Cardinality(PairMatches(matches, matches[i].round_name, matches[i].team_one,
                                     matches[i].team_two)) <= Cardinality(RequestIds))
    /\ [][\A r \in RequestIds : Inserts(r) =>
             LET f == Head(requests[r].todo)
             IN  /\ matches' = Append(matches, NewMatch(f[1], f[2], f[3]))
                 /\ requests'[r].created = requests[r].created + 1
                 /\ \A i \in PairMatches(matches, f[1], f[2], f[3]) :
                       i > requests[r].checked_at
         ]_vars

\* Two matches of the same pair under the same group label.
C27_Witness ==
    /\ \E i, j \in 1..Len(matches) :
          /\ i < j
          /\ matches[i].round_name = matches[j].round_name
          /\ matches[i].round_name = GroupLabel(1)
          /\ {matches[i].team_one, matches[i].team_two}
                = {matches[j].team_one, matches[j].team_two}
    /\ \A r \in RequestIds : requests[r].pc = "done" /\ requests[r].created = 3

\* ------------------------- actions: two knockout progressions interleaved
MaxProgressTeams == 4

\* Groups of two, both teams of a full group qualify, one of a smaller group.
RaceGroupingForm == <<MinGroupSize, MinGroupSize, DefaultSmallGroupQualifiers>>

\* The pairs of _create_knockout_round's loop: teams[idx] against teams[idx + 1].
RoundPairs(teams) ==
    [k \in 1..(Len(teams) \div 2) |->
        <<RoundNameForTeamCount(Len(teams)), teams[2 * k - 1], teams[2 * k]>>]

AfterRoundPair(todo) == IF Tail(todo) = <<>> THEN "stamp" ELSE "check"

\* The request holds the list it read; error holds what it returns unless it
\* creates a match.
Holding(q, out, already) ==
    IF out.teams = <<>>
    THEN [q EXCEPT !.pc = "done", !.error = out.error]
    ELSE [q EXCEPT !.pc = "check", !.teams = out.teams,
                   !.todo = RoundPairs(out.teams), !.error = already]

\* if not knockout_matches.exists():
ProgressBegin(r) ==
    /\ requests[r].pc = "idle"
    /\ requests' = [requests EXCEPT ![r] =
           [@ EXCEPT !.pc = IF KnockoutMatches(matches) = {} THEN "qualifiers"
                            ELSE "winners"]]
    /\ UNCHANGED roster
    /\ UNCHANGED guide
    /\ UNCHANGED <<enrolled_teams, matches, set_scores, grouping_form, team_list, last>>

\* qualifiers = _collect_group_qualifiers(...) and the three tests of the list.
ProgressQualifiers(r) ==
    /\ requests[r].pc = "qualifiers"
    /\ \E out \in {FirstRound(enrolled_teams, matches,
                      CollectGroupQualifiers(enrolled_teams, matches, grouping_form[2],
                                             grouping_form[3], grouping_form[1]))} :
          requests' = [requests EXCEPT ![r] =
                          Holding(@, out, "KnockoutAlreadyExists")]
    /\ UNCHANGED roster
    /\ UNCHANGED guide
    /\ UNCHANGED <<enrolled_teams, matches, set_scores, grouping_form, team_list, last>>

\* latest_round, the test for a match without winner, winners and its tests.
ProgressWinners(r) ==
    /\ requests[r].pc = "winners"
    /\ \E out \in {NextRound(enrolled_teams, matches)} :
          requests' = [requests EXCEPT ![r] =
                          Holding(@, out, "NextRoundAlreadyExists")]
    /\ UNCHANGED roster
    /\ UNCHANGED guide
    /\ UNCHANGED <<enrolled_teams, matches, set_scores, grouping_form, team_list, last>>

\* exists = tournament.matches.filter(round_name=round_name).filter(...).exists()
RoundCheck(r) ==
    /\ requests[r].pc = "check"
    /\ LET f == Head(requests[r].todo)
       IN  requests' = [requests EXCEPT ![r] =
               IF PairingMissing(matches, f[1], f[2], f[3])
               THEN [@ EXCEPT !.pc = "insert", !.checked_at = Len(matches)]
               ELSE [@ EXCEPT !.pc = AfterRoundPair(requests[r].todo), !.todo = Tail(@)]]
    /\ UNCHANGED roster
    /\ UNCHANGED guide
    /\ UNCHANGED <<enrolled_teams, matches, set_scores, grouping_form, team_list, last>>

\* Match.objects.create(...); created += 1
RoundInsert(r) ==
    /\ requests[r].pc = "insert"
    /\ LET f == Head(requests[r].todo)
       IN  matches' = Append(matches, NewMatch(f[1], f[2], f[3]))
    /\ requests' = [requests EXCEPT ![r] =
           [@ EXCEPT !.pc = AfterRoundPair(requests[r].todo), !.todo = Tail(@),
                     !.created = @ + 1, !.error = ""]]
    /\ UNCHANGED roster
    /\ UNCHANGED guide
    /\ UNCHANGED <<enrolled_teams, set_scores, grouping_form, team_list, last>>

\* The stamping loop of _create_knockout_round, and the return.
RoundStamp(r) ==
    /\ requests[r].pc = "stamp"
    /\ enrolled_teams' = StampTeams(enrolled_teams, requests[r].teams).entries
    /\ requests' = [requests EXCEPT ![r] = [@ EXCEPT !.pc = "done"]]
    /\ UNCHANGED roster
    /\ UNCHANGED guide
    /\ UNCHANGED <<matches, set_scores, grouping_form, team_list, last>>

RECURSIVE FirstTeamsWin(_, _)
FirstTeamsWin(ms, todo) ==
    IF todo = <<>> THEN ms
    ELSE FirstTeamsWin(ApplyGameEdit(ms, Head(todo), 1, 0), Tail(todo))

\* The tournament after one progression ran alone and every match of the round
\* it created got a result.
RoundPlayed(es, ms) ==
    LET out == ProgressKnockout(es, ms, RaceGroupingForm[2], RaceGroupingForm[3],
                                RaceGroupingForm[1])
        ks == KnockoutMatches(out.matches)
    IN  [entries |-> out.entries,
         matches |-> FirstTeamsWin(out.matches, SortByKey(ks, [i \in ks |-> <<i>>]))]

\* The group phase of n teams, with no knockout match or with the first
\* knockout round complete.
InitProgressRace ==
    /\ \E n \in 0..MaxProgressTeams, played \in BOOLEAN :
          \E g \in {GroupPhase(n, RaceGroupingForm[1])} :
             \E t \in {IF played THEN RoundPlayed(g.entries, g.matches) ELSE g} :
                /\ enrolled_teams = t.entries
                /\ matches = t.matches
    /\ set_scores = {}
    /\ grouping_form = RaceGroupingForm
    /\ team_list = <<>>
    /\ last = NoOp
    /\ requests = [r \in RequestIds |-> IdleRequest]
    /\ guide = NoGuide
    /\ RosterLeftOut

NextProgressRace ==
    \/ \E r \in RequestIds : ProgressBegin(r)
    \/ \E r \in RequestIds : ProgressQualifiers(r)
    \/ \E r \in RequestIds : ProgressWinners(r)
    \/ \E r \in RequestIds : RoundCheck(r)
    \/ \E r \in RequestIds : RoundInsert(r)
    \/ \E r \in RequestIds : RoundStamp(r)

SpecProgressRace == InitProgressRace /\ [][NextProgressRace]_vars

\* --------------------------------- claims: interleaved knockout progression
\* C28: nothing serialises two knockout progressions: both can read the same
\* state (no knockout match, or a complete round) before either inserts, and
\* both then build the same round.  Every match inserted is a pair of the list
\* its invocation read, under the round label of that list's length; the
\* invocation's own check found the pair without a match, every match the pair
\* has at the insert was created after that check, and no pair gets more
\* matches under a knockout label than there are invocations.
C28_DuplicateRoundOnlyBetweenCheckAndInsert ==
    /\ [](\A i \in KnockoutMatches(matches) :
             Cardinality(PairMatches(matches, matches[i].round_name, matches[i].team_one,
                                     matches[i].team_two)) <= Cardinality(RequestIds))
    /\ [][\A r \in RequestIds : Inserts(r) =>
             LET f == Head(requests[r].todo)
                 teams == requests[r].teams
             IN  /\ matches' = Append(matches, NewMatch(f[1], f[2], f[3]))
                 /\ f[1] = RoundNameForTeamCount(Len(teams))
                 /\ \E k \in 1..(Len(teams) \div 2) :
                       f[2] = teams[2 * k - 1] /\ f[3] = teams[2 * k]
                 /\ \A i \in PairMatches(matches, f[1], f[2], f[3]) :
                       i > requests[r].checked_at
         ]_vars

\* Both invocations read the complete first round of four teams and both
\* created the final: two matches of the same pair under "Mata-mata 2".
C28_Witness ==
    /\ \A r \in RequestIds : requests[r].pc = "done" /\ requests[r].created = 1
    /\ Cardinality({i \in 1..Len(matches) :
                       matches[i].round_name = RoundNameForTeamCount(4)}) = 2
    /\ \E i, j \in 1..Len(matches) :
          /\ i < j
          /\ matches[i].round_name = RoundNameForTeamCount(2)
          /\ matches[j].round_name = RoundNameForTeamCount(2)
          /\ {matches[i].team_one, matches[i].team_two}
                = {matches[j].team_one, matches[j].team_two}

\* Both invocations read the state without knockout match and both created the
\* first round: four matches under "Mata-mata 4" for two pairs.
FirstRoundBuiltTwice ==
    /\ \A r \in RequestIds : requests[r].pc = "done" /\ requests[r].created = 2
    /\ Cardinality({i \in 1..Len(matches) :
                       matches[i].round_name = RoundNameForTeamCount(4)}) = 4

\* ------------------------------------------------ actions: match creation
MaxQuickTeams == 3

MaxQuickMatches == 2

\* The round names typed into the quick-result form: its initial value and a
\* name that begins with the knockout prefix.
QuickRoundNames == {DefaultRoundName, RoundNameForTeamCount(4)}

\* The teams chosen in the quick-result form.
QuickTeams == {1, 2, 3}

\* The counts typed into the quick-result form: a win of the first team and
\* a draw.
QuickScores == {<<1, 0>>, <<0, 0>>}

\* TournamentQuickResultForm.clean
QuickResultFormError(team_one, team_two, sets_one, sets_two) ==
    IF team_one = team_two THEN "SameTeam"
    ELSE IF sets_one = sets_two THEN "DrawnSets"
    ELSE ""

\* _record_quick_result: the matches afterwards.
RecordQuickResult(ms, round_name, team_one, team_two, sets_one, sets_two) ==
    Append(ms, [NewMatch(round_name, team_one, team_two) EXCEPT
                   !.team_one_sets_won = sets_one,
                   !.team_two_sets_won = sets_two,
                   !.winner = IF sets_one > sets_two THEN team_one ELSE team_two])

\* tournament_detail, action "quick_result": the teams offered are the
\* enrolled ones; an invalid form records nothing.
QuickResultCall(round_name, team_one, team_two, sc) ==
    /\ Len(matches) - Cardinality({i \in 1..Len(matches) : matches[i].winner = None})
          < MaxQuickMatches
    /\ {team_one, team_two} \subseteq EnrolledIds(enrolled_teams)
    /\ \E error \in {QuickResultFormError(team_one, team_two, sc[1], sc[2])} :
          /\ matches' = IF error = ""
                        THEN RecordQuickResult(matches, round_name, team_one, team_two,
                                               sc[1], sc[2])
                        ELSE matches
          /\ last' = [NoOp EXCEPT !.op = "quick_result",
                                  !.arg = <<round_name, team_one, team_two, sc>>,
                                  !.error = error]
    /\ UNCHANGED roster
    /\ UNCHANGED <<requests, guide>>
    /\ UNCHANGED <<enrolled_teams, set_scores, grouping_form, team_list>>

\* Teams enrolled and put into groups of the default size; no match yet.
InitCreate ==
    /\ \E n \in 0..MaxQuickTeams :
          enrolled_teams = AssignGroups(Enrolled(n), DefaultGroupSize).entries
    /\ matches = <<>>
    /\ set_scores = {}
    /\ grouping_form = DefaultGroupingForm
    /\ team_list = <<>>
    /\ last = NoOp
    /\ requests = NoRequests
    /\ guide = NoGuide
    /\ RosterLeftOut

NextCreate ==
    \/ GenerateCall
    \/ \E round_name \in QuickRoundNames, team_one \in QuickTeams,
          team_two \in QuickTeams, sc \in QuickScores :
          QuickResultCall(round_name, team_one, team_two, sc)
    \/ ProgressCall

SpecCreate == InitCreate /\ [][NextCreate]_vars

\* ------------------------------------------------- claims: match creation
\* C29: every match has two distinct teams, whether round-robin generation,
\* knockout progression or the quick-result form created it: no state has a
\* match with team_one = team_two.  The quick-result form rejects a team
\* against itself and records nothing; a knockout list that pairs a team with
\* itself is refused by the check constraint.
C29_MatchTeamsAreDistinct ==
    /\ [](\A i \in 1..Len(matches) : matches[i].team_one # matches[i].team_two)
    /\ [][(last'.op = "quick_result" /\ last'.arg[2] = last'.arg[3]) =>
             (last'.error = "SameTeam" /\ matches' = matches)]_vars
    /\ [][(last'.op = "progress" /\ last'.error = "IntegrityError") =>
             /\ \E k \in 1..(Len(last'.teams) \div 2) :
                   last'.teams[2 * k - 1] = last'.teams[2 * k]
             /\ enrolled_teams' = enrolled_teams]_vars

\* The group matches were generated, one team won two knockout matches entered
\* through the quick-result form, and the progression that paired it with
\* itself was refused.
C29_Witness ==
    /\ last.op = "progress"
    /\ last.error = "IntegrityError"
    /\ last.teams = <<1, 1>>
    /\ \E i \in 1..Len(matches) : matches[i].round_name = GroupLabel(1)
    /\ \A i \in 1..Len(matches) : matches[i].round_name # RoundNameForTeamCount(2)

\* ------------------------------------------- actions: results and winners
GameEditFormError_AllowsDraw(sets_one, sets_two) == ""

\* MatchGameEditForm.clean
GameEditFormError(sets_one, sets_two) ==
    IF sets_one = sets_two THEN "DrawnSets" ELSE ""

\* The counts typed into the game-edit form.
GameEditScores == {<<2, 1>>, <<0, 1>>, <<1, 1>>}

\* tournament_detail, action "edit_result", for the match at index i: an
\* invalid form changes nothing.
GameEditCall(i, sc) ==
    /\ i \in 1..Len(matches)
    /\ \E error \in {GameEditFormError(sc[1], sc[2])} :
          /\ matches' = IF error = "" THEN ApplyGameEdit(matches, i, sc[1], sc[2])
                        ELSE matches
          /\ last' = [NoOp EXCEPT !.op = "game_edit", !.arg = <<i, sc>>,
                                  !.error = error]
    /\ UNCHANGED roster
    /\ UNCHANGED <<requests, guide>>
    /\ UNCHANGED <<enrolled_teams, set_scores, grouping_form, team_list>>

\* The sets saved here: sets one and two of a match, won by either side or
\* drawn, without tie-break.
WinnerRows(i) ==
    {s \in SetScoreInputs(i) :
        /\ s.set_number \in {1, 2}
        /\ ~s.tie_break_played
        /\ s.team_one_tie_break_points = NoPoints
        /\ s.team_two_tie_break_points = NoPoints}

\* Two enrolled teams and the match between them.
InitWinner == InitScore

NextWinner ==
    \/ \E team_two \in {1, 2}, sc \in QuickScores :
          QuickResultCall(DefaultRoundName, 1, team_two, sc)
    \/ \E i \in 1..Len(matches), sc \in GameEditScores : GameEditCall(i, sc)
    \/ \E s \in WinnerRows(1) : SaveNewSetScore(s)
    \/ \E old \in set_scores, s \in WinnerRows(1) : SaveChangedSetScore(old, s)
    \/ \E old \in set_scores : DeleteSetScore(old)
    \/ \E deleted \in {{}} \cup {{o} : o \in set_scores},
          added \in {{}} \cup {{s} : s \in WinnerRows(1)} :
          MatchResultUpdate(1, deleted, added, <<>>, <<>>)

SpecWinner == InitWinner /\ [][NextWinner]_vars

\* ------------------------------------------------------- claims: winners
\* C30: in every state a match has a winner exactly when its cached
\* team_one_sets_won and team_two_sets_won differ, and the winner is then the
\* team with the greater count, never another team.  It holds after set
\* scores are saved or deleted, after quick results and after game edits; the
\* two forms reject equal counts and change no match.
C30_WinnerIffCachedCountsDiffer ==
    /\ [](\A i \in 1..Len(matches) :
             LET m == matches[i]
             IN  /\ (m.winner # None) <=> (m.team_one_sets_won # m.team_two_sets_won)
                 /\ m.team_one_sets_won > m.team_two_sets_won => m.winner = m.team_one
                 /\ m.team_two_sets_won > m.team_one_sets_won => m.winner = m.team_two)
    /\ [][(last'.op = "quick_result" /\ last'.arg[4][1] = last'.arg[4][2]) =>
             (last'.error # "" /\ matches' = matches)]_vars
    /\ [][(last'.op = "game_edit" /\ last'.arg[2][1] = last'.arg[2][2]) =>
             (last'.error = "DrawnSets" /\ matches' = matches)]_vars

\* A match drawn at one set each without winner, a quick result won by its
\* first team and then edited in favour of its second, and a drawn game edit
\* that was rejected.
C30_Witness ==
    /\ Len(matches) = 2
    /\ matches[1].team_one_sets_won = 1
    /\ matches[1].team_two_sets_won = 1
    /\ matches[1].winner = None
    /\ matches[2].team_one_sets_won = 0
    /\ matches[2].team_two_sets_won = 1
    /\ matches[2].winner = matches[2].team_two
    /\ last.op = "game_edit"
    /\ last.error = "DrawnSets"
    /\ last.arg[1] = 2

\* ------------------------------------------- claims: the knockout bracket
\* The team counts of the knockout rounds built so far.
RoundSizes(ms) == {ms[i].round_name[2] : i \in KnockoutMatches(ms)}

RoundOf(ms, c) == {i \in KnockoutMatches(ms) : ms[i].round_name[2] = c}

TeamsOfRound(ms, c) ==
    {ms[i].team_one : i \in RoundOf(ms, c)} \cup {ms[i].team_two : i \in RoundOf(ms, c)}

Largest(S) == CHOOSE c \in S : \A d \in S : d <= c

Smallest(S) == CHOOSE c \in S : \A d \in S : c <= d

\* C31: from a first round of N = 2^k qualifiers, with results entered and
\* progression called in any order, every round built has a power-of-two
\* number of teams, half the teams of the round before it (winners of that
\* round), so the rounds are N, N/2, ... and the one-match Final is the k-th
\* round, built by the (k-1)-th successful advance; each successful advance
\* adds exactly the next round, and with the Final as latest round no
\* progression call creates a match.
C31_RoundsHalveDownToTheFinal ==
    /\ [](LET sizes == RoundSizes(matches)
          IN  \A c \in sizes :
                 /\ c >= 2
                 /\ IsPowerOfTwo(c)
                 /\ Cardinality(RoundOf(matches, c)) = c \div 2
                 /\ Cardinality(TeamsOfRound(matches, c)) = c
                 /\ 2 ^ (Cardinality({d \in sizes : d > c})) * c = Largest(sizes)
                 /\ c # Largest(sizes) =>
                       /\ 2 * c \in sizes
                       /\ TeamsOfRound(matches, c) \subseteq TeamsOfRound(matches, 2 * c))
    /\ [][(IsProgressStep /\ HasKnockout(matches)) =>
             LET sizes == RoundSizes(matches)
                 latest == Smallest(sizes)
             IN  /\ latest = LatestRound(matches)[2]
                 /\ IF last'.ret > 0
                    THEN /\ RoundSizes(matches') = sizes \cup {latest \div 2}
                         /\ latest \div 2 \notin sizes
                         /\ last'.ret = latest \div 4
                         /\ Len(matches') = Len(matches) + last'.ret
                         /\ TeamsOfRound(matches', latest \div 2)
                               = {matches[i].winner : i \in RoundOf(matches, latest)}
                    ELSE NothingChanged
                 /\ latest = 2 => FailedWithoutEffect
         ]_vars

\* Quarter-finals, semi-finals and Final were built from eight qualifiers,
\* the Final has its winner, and a further progression was refused.
C31_Witness ==
    /\ RoundSizes(matches) = {8, 4, 2}
    /\ \A i \in KnockoutMatches(matches) : matches[i].winner # None
    /\ last.op = "progress"
    /\ last.error = "InsufficientWinners"
    /\ last.ret = 0

\* ------------------------------ actions: registering and pairing players
MaxEnrollPlayers == 4

\* TournamentParticipantForm._eligible_participants: the participants of the
\* tournament's category and of a gender its division admits that are not
\* registered yet.
EligibleParticipants(ps, tps, tn) ==
    {i \in 1..Len(ps) :
        /\ tn.category # None => ps[i].category = tn.category
        /\ tn.division = DivisionMale => ps[i].gender \in {GenderMale, GenderMixed}
        /\ tn.division = DivisionFemale => ps[i].gender \in {GenderFemale, GenderMixed}
        /\ i \notin Range(tps)}

\* tournament_detail, action add_participants: the chosen participants are
\* registered in the order of their names; a choice outside the eligible ones
\* makes the form invalid.
AddParticipantsCall(chosen) ==
    /\ chosen # {}
    /\ \E valid \in {chosen \subseteq EligibleParticipants(participants,
                                                          tournament_participants,
                                                          tournament)} :
          /\ tournament_participants' =
                IF valid THEN tournament_participants \o ByFullName(chosen)
                ELSE tournament_participants
          /\ last' = [NoOp EXCEPT !.op = "add_participants", !.arg = chosen,
                                  !.ret = IF valid THEN Cardinality(chosen) ELSE 0,
                                  !.error = IF valid THEN "" ELSE "InvalidChoice"]
    /\ UNCHANGED <<participants, team_table, tournament, requests, guide>>
    /\ UNCHANGED <<enrolled_teams, matches, set_scores, grouping_form, team_list>>

\* TournamentManualPairForm._available_participants: the registered
\* participants that are in no enrolled team.
AvailableParticipants(ts, tps, es) ==
    LET assigned_ids == UNION {{ts[es[i].team].player_one,
                                ts[es[i].team].player_two} : i \in 1..Len(es)}
    IN  Range(tps) \ assigned_ids

\* TournamentManualPairForm: both choices are available participants, and
\* clean() wants them different.
ManualPairFormError(ts, tps, es, player_one, player_two) ==
    IF ~({player_one, player_two} \subseteq AvailableParticipants(ts, tps, es))
    THEN "InvalidChoice"
    ELSE IF player_one = player_two THEN "SamePlayer"
    ELSE ""

\* tournament_detail, action manual_pair: an invalid form pairs nobody.
ManualPairPosted(player_one, player_two) ==
    IF ManualPairFormError(team_table, tournament_participants, enrolled_teams,
                           player_one, player_two) = ""
    THEN ManualPairCall(player_one, player_two, "")
    ELSE /\ last' = [NoOp EXCEPT !.op = "manual_pair",
                        !.arg = <<player_one, player_two, "">>,
                        !.error = ManualPairFormError(team_table, tournament_participants,
                                                      enrolled_teams, player_one,
                                                      player_two)]
         /\ UNCHANGED roster
         /\ UNCHANGED <<requests, guide>>
         /\ UNCHANGED <<enrolled_teams, matches, set_scores, grouping_form, team_list>>

\* tournament_detail, action auto_pair, in the order of the names or shuffled.
AutoPairAnyOrder ==
    \E available \in {ParticipantsWithoutTeam(team_table, tournament_participants,
                                              enrolled_teams)} :
        \E order \in Shuffles(available) : AutoPairCall(order # available, order)

\* The choices posted with add_participants: the participant that comes first
\* among those not registered, or every participant that is not registered.
NextToRegister(ps, tps) ==
    LET left == {i \in 1..Len(ps) : i \notin Range(tps)}
    IN  IF left = {} THEN {} ELSE {{CHOOSE i \in left : \A j \in left : i <= j}, left}

\* Participants of the first category, at most one of them not male; a male or
\* a mixed tournament open to every category; nobody registered.
InitEnrollPlayers ==
    /\ \E n \in 0..MaxEnrollPlayers :
          participants \in {ps \in [1..n -> [gender : Genders, category : {1}]] :
                               Cardinality({i \in 1..n : ps[i].gender # GenderMale}) <= 1}
    /\ tournament_participants = <<>>
    /\ team_table = <<>>
    /\ tournament \in {tn \in TournamentRows : /\ tn.division # DivisionFemale
                                                /\ tn.category = None}
    /\ enrolled_teams = <<>>
    /\ matches = <<>>
    /\ set_scores = {}
    /\ grouping_form = DefaultGroupingForm
    /\ team_list = <<>>
    /\ last = NoOp
    /\ requests = NoRequests
    /\ guide = NoGuide

NextEnrollPlayers ==
    \/ \E chosen \in NextToRegister(participants, tournament_participants) :
          AddParticipantsCall(chosen)
    \/ \E player_one \in 1..Len(participants), player_two \in 1..Len(participants) :
          ManualPairPosted(player_one, player_two)
    \/ AutoPairAnyOrder

SpecEnrollPlayers == InitEnrollPlayers /\ [][NextEnrollPlayers]_vars

\* ------------------------------- claims: one team per player and tournament
PlayersOf(ts, t) == {ts[t].player_one, ts[t].player_two}

\* C32: after any sequence of add-participants, manual pairings through the
\* form and automatic pairings, no participant is in two teams enrolled in the
\* tournament.  Automatic pairing draws only from registered participants that
\* are in no enrolled team and enrolls only teams made of them, and the manual
\* pair form refuses a participant that is already in an enrolled team.
C32_NoPlayerInTwoEnrolledTeams ==
    /\ [](\A i, j \in 1..Len(enrolled_teams) :
             i # j => PlayersOf(team_table, enrolled_teams[i].team)
                         \cap PlayersOf(team_table, enrolled_teams[j].team) = {})
    /\ [][IsAutoPairStep =>
             LET paired == UNION {PlayersOf(team_table, enrolled_teams[i].team) :
                                     i \in 1..Len(enrolled_teams)}
             IN  /\ Range(last'.rows) = Range(tournament_participants) \ paired
                 /\ \A t \in last'.saved : PlayersOf(team_table', t) \subseteq Range(last'.rows)
                 /\ Cardinality(last'.saved) = last'.ret
         ]_vars
    /\ [][(/\ IsManualPairStep
           /\ \E i \in 1..Len(enrolled_teams) :
                 {last'.arg[1], last'.arg[2]}
                    \cap PlayersOf(team_table, enrolled_teams[i].team) # {})
          => /\ last'.error = "InvalidChoice"
             /\ enrolled_teams' = enrolled_teams
             /\ team_table' = team_table
             /\ tournament_participants' = tournament_participants
         ]_vars

\* Four registered participants in two enrolled teams: one formed through the
\* manual pair form, the other by the automatic pairing that followed.
C32_Witness ==
    /\ last.op = "auto_pair"
    /\ last.ret = 1
    /\ Len(last.rows) = 2
    /\ Len(enrolled_teams) = 2
    /\ Len(tournament_participants) = 4

\* ------------------------------------------ claims: fixtures and group labels
\* C33: fixture generation creates matches only among enrollments that were
\* assigned a group: no match it creates has an empty round label, and both
\* teams of every match it creates are enrolled with a label that is not
\* empty.
C33_FixturesOnlyAmongGroupedTeams ==
    [][IsGenerateStep =>
          \A i \in (Len(matches) + 1)..Len(matches') :
              /\ matches'[i].round_name # NoLabel
              /\ EntryOf(enrolled_teams, matches'[i].team_one).group_label # NoLabel
              /\ EntryOf(enrolled_teams, matches'[i].team_two).group_label # NoLabel
      ]_vars

\* C34: after any sequence of enrollments, group assignments of any size and
\* fixture generations, every match under a group label is between two teams
\* whose enrollments both carry that label now.
C34_GroupFixturesStayInsideGroups ==
    \A i \in 1..Len(matches) :
        matches[i].round_name[1] = GroupLabel(1)[1] =>
            /\ EntryOf(enrolled_teams, matches[i].team_one).group_label
                  = matches[i].round_name
            /\ EntryOf(enrolled_teams, matches[i].team_two).group_label
                  = matches[i].round_name

\* ------------------------------------------------ enrollment stage: model
MaxStageTeams == 4

\* A tournament after its first grouping request, on which groups are
\* assigned again, fixtures generated, results entered and the knockout
\* progressed in any order.
InitStage ==
    \E n \in 0..MaxStageTeams, f \in GroupingForms :
        /\ enrolled_teams = GroupPhase(n, f[1]).entries
        /\ matches = GroupPhase(n, f[1]).matches
        /\ set_scores = {}
        /\ grouping_form = f
        /\ team_list = <<>>
        /\ last = NoOp
        /\ requests = NoRequests
        /\ guide = NoGuide
        /\ RosterLeftOut

NextStage ==
    \/ \E g \in GroupSizes : AssignGroupsCall(g)
    \/ GenerateCall
    \/ \E i \in 1..Len(matches), sc \in ResultScores : EditResult(i, sc)
    \/ ProgressCall

SpecStage == InitStage /\ [][NextStage]_vars

\* ----------------------------------------------- enrollment stage: claims
KnockoutTeams(ms) ==
    {ms[i].team_one : i \in KnockoutMatches(ms)}
        \cup {ms[i].team_two : i \in KnockoutMatches(ms)}

\* stage, seed and is_eliminated of every enrollment, by team
Stamps(es) ==
    {<<es[i].team, es[i].stage, es[i].seed, es[i].is_eliminated>> : i \in 1..Len(es)}

LeavesStampsAlone ==
    \/ last'.op \in {"assign", "generate"}
    \/ last'.op = "progress" /\ last'.error # ""

\* C35: the stage of an enrollment moves only from group to knockout; an
\* enrollment is in stage knockout exactly when its team is in a match of a
\* knockout round; assigning groups, generating fixtures and a progression
\* that fails leave stage, seed and is_eliminated of every enrollment as they
\* were.
C35_StageFollowsKnockoutMatches ==
    /\ [](\A i \in 1..Len(enrolled_teams) :
            enrolled_teams[i].stage = StageKnockout
                <=> enrolled_teams[i].team \in KnockoutTeams(matches))
    /\ [][/\ \A i \in 1..Len(enrolled_teams) :
                enrolled_teams[i].stage = StageKnockout =>
                    EntryOf(enrolled_teams', enrolled_teams[i].team).stage
                        = StageKnockout
          /\ LeavesStampsAlone => Stamps(enrolled_teams') = Stamps(enrolled_teams)
         ]_vars

\* Groups were assigned again and a progression failed after two of four
\* teams had reached the final.
C35_Witness ==
    /\ last.op = "progress"
    /\ last.error # ""
    /\ \E i, j \in 1..Len(enrolled_teams) :
          /\ enrolled_teams[i].stage = StageKnockout
          /\ enrolled_teams[i].seed = 2
          /\ enrolled_teams[j].stage # StageKnockout
          /\ enrolled_teams[j].group_label # GroupPhase(Len(enrolled_teams), grouping_form[1]).entries[j].group_label
    /\ \E i \in KnockoutMatches(matches) : matches[i].round_name = RoundNameForTeamCount(2)

\* ------------------------------------------------------ daily guide: model
MaxDailyPlayers == 5
MaxDailyTeams == 2
MaxDailyMatches == 1
MaxPodiumTeams == 3
MaxPodiumMatches == 2

\* Everything but the guide and the record of the last operation.
TournamentTables ==
    <<enrolled_teams, matches, set_scores, grouping_form, team_list,
      participants, team_table, tournament_participants, tournament, requests>>

DailyParticipantIds(g) == 1..Len(g.participants)

\* DailyParticipant.is_assigned
IsAssigned(g, p) ==
    \E i \in 1..Len(g.daily_teams) :
        p \in {g.daily_teams[i].player_one, g.daily_teams[i].player_two}

AvailableDailyParticipants_All(g) == DailyParticipantIds(g)

\* guide.participants.filter(primary_daily_teams__isnull=True,
\* secondary_daily_teams__isnull=True); DailyPairForm builds the same set with
\* exclude().
AvailableDailyParticipants(g) ==
    {p \in DailyParticipantIds(g) : ~IsAssigned(g, p)}

Finished_Never(g) == FALSE

Finished(g) == g.finished_at # None

\* DailyTeam.full_clean on a new row: clean(), then the check constraint
\* daily_team_distinct_players.  guide_set tells whether the row has its guide
\* yet; all participants modelled belong to the one guide, so the first test
\* of clean() fails exactly when the row has none.
DailyTeamCleanError(g, guide_set, player_one, player_two) ==
    IF ~guide_set THEN "OtherGuide"
    ELSE IF IsAssigned(g, player_one) \/ IsAssigned(g, player_two) THEN "AlreadyPaired"
    ELSE IF player_one = player_two THEN "SamePlayer"
    ELSE ""

\* f"{player_one.name} / {player_two.name}"; the names modelled are of one
\* length, so that the strings sort as the pairs of names do.
DailyTeamName(g, player_one, player_two) ==
    <<g.participants[player_one], g.participants[player_two]>>

\* DailyTeam.save on a new row: the players are put in id order, the name is
\* built, full_clean runs and the row is inserted.  [error, guide]
DailyTeamSave(g, player_one, player_two) ==
    LET a == Min(player_one, player_two)
        b == Max(player_one, player_two)
        err == DailyTeamCleanError(g, TRUE, a, b)
    IN  IF err # "" THEN [error |-> err, guide |-> g]
        ELSE [error |-> "",
              guide |-> [g EXCEPT !.daily_teams =
                            Append(@, [player_one |-> a, player_two |-> b,
                                       name |-> DailyTeamName(g, a, b)])]]

\* DailyTeam.objects.create(guide=guide, player_one=..., player_two=...)
DailyTeamCreate(player_one, player_two) ==
    \E r \in {DailyTeamSave(guide, player_one, player_two)} :
        /\ guide' = r.guide
        /\ last' = [NoOp EXCEPT !.op = "create_team",
                                !.arg = <<player_one, player_two>>,
                                !.error = r.error]
        /\ UNCHANGED TournamentTables

\* DailyPairForm(guide, request.POST).is_valid().  The two fields offer the
\* available participants (None: nothing chosen).  The form then cleans the
\* DailyTeam it builds from the two fields, and only save() gives that row
\* its guide: clean() reads self.player_one, which is not there when the
\* field was refused, and runs its tests on a row without guide.
DailyPairFormError(g, player_one, player_two) ==
    IF player_one \notin AvailableDailyParticipants(g)
    THEN "RelatedObjectDoesNotExist"
    ELSE LET err == DailyTeamCleanError(g, FALSE, player_one, player_two)
         IN  IF err # "" THEN err
             ELSE IF player_two \notin AvailableDailyParticipants(g)
             THEN "InvalidChoice"
             ELSE ""

\* daily_guide_detail, action "manual_pair"
DailyManualPair(player_one, player_two) ==
    LET err == IF Finished(guide) THEN "Finished"
               ELSE DailyPairFormError(guide, player_one, player_two)
        r == DailyTeamSave(guide, player_one, player_two)
    IN  /\ guide' = IF err # "" \/ r.error # "" THEN guide
                    ELSE [r.guide EXCEPT !.pairing_mode =
                             IF @ = ModeUndecided THEN ModeManual ELSE @]
        /\ last' = [NoOp EXCEPT !.op = "manual_pair",
                                !.arg = <<player_one, player_two>>,
                                !.error = IF err # "" THEN err ELSE r.error]
        /\ UNCHANGED TournamentTables

\* The loop of _pair_randomly over the shuffled list: [error, guide, created]
RECURSIVE CreateDailyPairs(_, _, _)
CreateDailyPairs(g, available, created) ==
    IF Len(available) < 2 THEN [error |-> "", guide |-> g, created |-> created]
    ELSE LET r == DailyTeamSave(g, available[1], available[2])
         IN  IF r.error # ""
             THEN [error |-> r.error, guide |-> g, created |-> created]
             ELSE CreateDailyPairs(r.guide, SubSeq(available, 3, Len(available)),
                              created + 1)

\* _pair_randomly, given the order random.shuffle left the list in
PairRandomly(g, available) == CreateDailyPairs(g, available, 0)

\* daily_guide_detail, action "random_pair"
DailyRandomPair(available) ==
    \E r \in {IF Finished(guide)
              THEN [error |-> "Finished", guide |-> guide, created |-> 0]
              ELSE PairRandomly(guide, available)} :
        /\ guide' = IF r.error = "" /\ r.created > 0
                    THEN [r.guide EXCEPT !.pairing_mode = ModeRandom]
                    ELSE r.guide
        /\ last' = [NoOp EXCEPT !.op = "random_pair", !.arg = available,
                                !.ret = r.created,
                                !.error = IF r.error = "" /\ r.created = 0
                                          THEN "NotEnoughParticipants"
                                          ELSE r.error]
        /\ UNCHANGED TournamentTables

\* A guide as daily_guide_setup leaves it: two participants or more, no
\* team.  Names are numbers; they sort as the ids do.
InitDailyPair ==
    \E n \in 2..MaxDailyPlayers :
        /\ guide = [NoGuide EXCEPT !.participants = [p \in 1..n |-> p]]
        /\ enrolled_teams = <<>>
        /\ matches = <<>>
        /\ set_scores = {}
        /\ grouping_form = DefaultGroupingForm
        /\ team_list = <<>>
        /\ last = NoOp
        /\ requests = NoRequests
        /\ RosterLeftOut

\* The list _pair_randomly shuffles, in the order of the participants' names
AvailableList(g) ==
    SortByKey(AvailableDailyParticipants(g),
              [p \in AvailableDailyParticipants(g) |-> <<g.participants[p]>>])

NextDailyPair ==
    \/ \E p, q \in DailyParticipantIds(guide) : DailyTeamCreate(p, q)
    \/ \E p, q \in {None} \cup DailyParticipantIds(guide) : DailyManualPair(p, q)
    \/ \E s \in Shuffles(AvailableList(guide)) : DailyRandomPair(s)

SpecDailyPair == InitDailyPair /\ [][NextDailyPair]_vars

\* ----------------------------------------------------- daily guide: claims
TeamsOfParticipant(g, p) ==
    {i \in 1..Len(g.daily_teams) :
        p \in {g.daily_teams[i].player_one, g.daily_teams[i].player_two}}

FreeParticipants(g) ==
    {p \in DailyParticipantIds(g) : TeamsOfParticipant(g, p) = {}}

NewDailyTeams == (Len(guide.daily_teams) + 1)..Len(guide'.daily_teams)

\* C38: no participant is in two teams of the guide; creating a team with a
\* participant who is in a team fails and adds no row; random pairing pairs
\* only participants who were in no team, and out of n such participants it
\* makes n \div 2 teams.
C38_OneDailyTeamPerParticipant ==
    /\ [](\A p \in DailyParticipantIds(guide) :
            Cardinality(TeamsOfParticipant(guide, p)) <= 1)
    /\ [][/\ \A i \in NewDailyTeams :
                /\ guide'.daily_teams[i].player_one # guide'.daily_teams[i].player_two
                /\ guide'.daily_teams[i].player_one \in FreeParticipants(guide)
                /\ guide'.daily_teams[i].player_two \in FreeParticipants(guide)
          /\ (/\ last'.op \in {"create_team", "manual_pair"}
              /\ \E k \in 1..2 : last'.arg[k] # None /\ last'.arg[k] \notin FreeParticipants(guide))
                => last'.error # "" /\ guide' = guide
          /\ last'.op = "random_pair" =>
                /\ last'.ret = Cardinality(FreeParticipants(guide)) \div 2
                /\ Cardinality(NewDailyTeams) = last'.ret
                /\ SubSeq(guide'.daily_teams, 1, Len(guide.daily_teams))
                      = guide.daily_teams
         ]_vars

\* Of five participants two were made a team, random pairing made one team
\* of the other three, and a team was then asked for the one left with a
\* participant of a team.
C38_Witness ==
    /\ Len(guide.participants) = 5
    /\ Len(guide.daily_teams) = 2
    /\ guide.pairing_mode = ModeRandom
    /\ Cardinality(FreeParticipants(guide)) = 1
    /\ last.op = "create_team"
    /\ last.error = "AlreadyPaired"
    /\ \E k \in 1..2 : last.arg[k] \in FreeParticipants(guide)

\* --------------------------------------- daily guide: matches and podium
\* <<team_one_score, team_two_score>> of the match form
DailyScores == {<<6, 3>>, <<4, 6>>, <<5, 5>>}

\* What timezone.now() can return
Instants == {1, 2}

\* DailyMatch._define_winner
DefineWinner(team_one, team_two, team_one_score, team_two_score) ==
    IF team_one_score = team_two_score THEN None
    ELSE IF team_one_score > team_two_score THEN team_one
    ELSE team_two

\* The row DailyMatch.save stores
SavedDailyMatch(team_one, team_two, sc) ==
    [team_one |-> team_one, team_two |-> team_two,
     team_one_score |-> sc[1], team_two_score |-> sc[2],
     winner |-> DefineWinner(team_one, team_two, sc[1], sc[2])]

\* DailyMatchForm.is_valid(): both fields offer the teams of the guide (None:
\* nothing chosen), and clean() wants two different teams.
DailyMatchFormError(g, team_one, team_two) ==
    IF ~({team_one, team_two} \subseteq 1..Len(g.daily_teams)) THEN "InvalidChoice"
    ELSE IF team_one = team_two THEN "SameTeam"
    ELSE ""

\* daily_guide_detail, action "record_match"
DailyRecordMatch(team_one, team_two, sc) ==
    LET err == IF Finished(guide) THEN "Finished"
               ELSE DailyMatchFormError(guide, team_one, team_two)
    IN  /\ Finished(guide) \/ Len(guide.matches) < MaxDailyMatches
        /\ guide' = IF err # "" THEN guide
                    ELSE [guide EXCEPT !.matches =
                             Append(@, SavedDailyMatch(team_one, team_two, sc))]
        /\ last' = [NoOp EXCEPT !.op = "record_match", !.error = err]
        /\ UNCHANGED TournamentTables

\* daily_guide_detail, action "update_match"
DailyUpdateMatch(match_id, team_one, team_two, sc) ==
    LET err == IF Finished(guide) THEN "Finished"
               ELSE IF match_id \notin 1..Len(guide.matches) THEN "NotFound"
               ELSE DailyMatchFormError(guide, team_one, team_two)
    IN  /\ guide' = IF err # "" THEN guide
                    ELSE [guide EXCEPT !.matches[match_id] =
                             SavedDailyMatch(team_one, team_two, sc)]
        /\ last' = [NoOp EXCEPT !.op = "update_match", !.error = err]
        /\ UNCHANGED TournamentTables

\* The loop of _daily_standings over the matches, for the row of team t
RECURSIVE DailyTally(_, _, _)
DailyTally(ms, t, row) ==
    IF ms = <<>> THEN row
    ELSE LET m == Head(ms)
             scored == IF m.team_one = t THEN m.team_one_score ELSE m.team_two_score
             conceded == IF m.team_one = t THEN m.team_two_score ELSE m.team_one_score
         IN  IF t \notin {m.team_one, m.team_two} THEN DailyTally(Tail(ms), t, row)
             ELSE DailyTally(Tail(ms), t,
                     [row EXCEPT !.matches = @ + 1,
                                 !.games_for = @ + scored,
                                 !.games_against = @ + conceded,
                                 !.wins = IF m.winner = t THEN @ + 1 ELSE @,
                                 !.losses = IF m.winner # None /\ m.winner # t
                                            THEN @ + 1 ELSE @])

DailyStandingKey_DiffFirst(g, row) ==
    <<-row.wins, -row.game_diff, -row.games_for>> \o g.daily_teams[row.team].name

\* key=lambda row: (-wins, -games_for, -game_diff, team.name)
DailyStandingKey(g, row) ==
    <<-row.wins, -row.games_for, -row.game_diff>> \o g.daily_teams[row.team].name

\* _daily_standings: the rows in order.  Every team of a match is a team of
\* the guide.
DailyStandings(g) ==
    LET ids == 1..Len(g.daily_teams)
        tally == [t \in ids |->
                    DailyTally(g.matches, t,
                        [team |-> t, matches |-> 0, wins |-> 0, losses |-> 0,
                         games_for |-> 0, games_against |-> 0])]
        rows == [t \in ids |->
                    [team |-> t, matches |-> tally[t].matches,
                     wins |-> tally[t].wins, losses |-> tally[t].losses,
                     games_for |-> tally[t].games_for,
                     games_against |-> tally[t].games_against,
                     game_diff |-> tally[t].games_for - tally[t].games_against]]
        order == SortByKey(ids, [t \in ids |-> DailyStandingKey(g, rows[t])])
    IN  [k \in 1..Len(order) |-> rows[order[k]]]

\* daily_guide_detail, action "finalize"; now is the value of timezone.now()
DailyFinalize(now) ==
    \E standings \in {DailyStandings(guide)} :
        LET err == IF Finished(guide) THEN "Finished"
                   ELSE IF guide.matches = <<>> THEN "NoMatches"
                   ELSE IF \A k \in 1..Len(standings) : standings[k].matches = 0
                   THEN "NoResults"
                   ELSE ""
            place(k) == IF Len(standings) >= k THEN standings[k].team ELSE None
        IN  /\ guide' = IF err # "" THEN guide
                        ELSE [guide EXCEPT !.champion = place(1),
                                           !.runner_up = place(2),
                                           !.third_place = place(3),
                                           !.finished_at = now]
            /\ last' = [NoOp EXCEPT !.op = "finalize", !.arg = now, !.error = err]
            /\ UNCHANGED TournamentTables

\* The names of n participants: in the order of the ids, or against it
DailyNames(n) == {[p \in 1..n |-> p], [p \in 1..n |-> n + 1 - p]}

\* A guide with k teams, made of the participants 1 and 2, 3 and 4, ..., and
\* two more participants or none: all paired by one random pairing, or some
\* paired by DailyTeam.objects.create.
PairedGuide(names, k) ==
    [NoGuide EXCEPT
        !.participants = names,
        !.daily_teams = [t \in 1..k |->
                            [player_one |-> 2 * t - 1, player_two |-> 2 * t,
                             name |-> <<names[2 * t - 1], names[2 * t]>>]],
        !.pairing_mode = IF k > 0 /\ Len(names) = 2 * k THEN ModeRandom
                         ELSE ModeUndecided]

InitDailyGuide ==
    \E k \in 0..MaxDailyTeams, free \in {0, 2} :
        /\ 2 * k + free >= 2
        /\ guide = PairedGuide([p \in 1..(2 * k + free) |-> p], k)
        /\ enrolled_teams = <<>>
        /\ matches = <<>>
        /\ set_scores = {}
        /\ grouping_form = DefaultGroupingForm
        /\ team_list = <<>>
        /\ last = NoOp
        /\ requests = NoRequests
        /\ RosterLeftOut

\* The two team fields of a posted match form: two teams of the guide, one
\* team twice, or a field left empty.
PostedTeams(g) ==
    {x \in (0..Len(g.daily_teams)) \X (0..Len(g.daily_teams)) :
        \/ x[1] # x[2] /\ x[1] # None /\ x[2] # None
        \/ x \in {<<None, 1>>, <<1, 1>>}}

\* The manual-pair form is posted with what it offers, or with a field left
\* empty.
NextDailyGuide ==
    \/ \E p, q \in {None} \cup AvailableDailyParticipants(guide) :
          DailyManualPair(p, q)
    \/ \E s \in Shuffles(AvailableList(guide)) : DailyRandomPair(s)
    \/ \E x \in PostedTeams(guide), sc \in DailyScores :
          DailyRecordMatch(x[1], x[2], sc)
    \/ \E i \in 0..Len(guide.matches), x \in PostedTeams(guide), sc \in DailyScores :
          DailyUpdateMatch(i, x[1], x[2], sc)
    \/ \E now \in Instants : DailyFinalize(now)

SpecDailyGuide == InitDailyGuide /\ [][NextDailyGuide]_vars

\* The sequences of at most n matches between k teams, team_one being the
\* team created first.
RECURSIVE DailyMatchLists(_, _)
DailyMatchLists(k, n) ==
    IF n = 0 THEN {<<>>}
    ELSE LET shorter == DailyMatchLists(k, n - 1)
         IN  shorter \cup
             {Append(ms, SavedDailyMatch(pair[1], pair[2], sc)) :
                 ms \in {x \in shorter : Len(x) = n - 1},
                 pair \in {x \in (1..k) \X (1..k) : x[1] < x[2]},
                 sc \in DailyScores}

\* A guide with its teams and some matches recorded, on which finalize is
\* asked for, once or again.
InitFinalize ==
    \E k \in 0..MaxPodiumTeams :
        /\ k >= 1
        /\ \E names \in DailyNames(2 * k), ms \in DailyMatchLists(k, MaxPodiumMatches) :
              guide = [PairedGuide(names, k) EXCEPT !.matches = ms]
        /\ enrolled_teams = <<>>
        /\ matches = <<>>
        /\ set_scores = {}
        /\ grouping_form = DefaultGroupingForm
        /\ team_list = <<>>
        /\ last = NoOp
        /\ requests = NoRequests
        /\ RosterLeftOut

NextFinalize == \E now \in Instants : DailyFinalize(now)

SpecFinalize == InitFinalize /\ [][NextFinalize]_vars

\* ------------------------------------------- daily guide: podium, claims
\* C36: once the guide is finished, no POST action changes its teams, its
\* matches, its pairing mode or its podium.
C36_FinishedGuideIsFrozen ==
    [][guide.finished_at # None =>
          /\ guide'.daily_teams = guide.daily_teams
          /\ guide'.matches = guide.matches
          /\ guide'.pairing_mode = guide.pairing_mode
          /\ guide'.champion = guide.champion
          /\ guide'.runner_up = guide.runner_up
          /\ guide'.third_place = guide.third_place
          /\ guide'.finished_at = guide.finished_at
      ]_vars

\* Random pairing was asked for on a finished guide with two participants
\* free and a podium of two teams.
C36_Witness ==
    /\ guide.finished_at # None
    /\ guide.champion # None
    /\ guide.third_place = None
    /\ Cardinality(FreeParticipants(guide)) = 2
    /\ last.op = "random_pair"
    /\ last.error = "Finished"

MatchesOfTeam(g, t) ==
    {i \in 1..Len(g.matches) : t \in {g.matches[i].team_one, g.matches[i].team_two}}

RECURSIVE GamesSum(_, _, _, _)
GamesSum(g, t, S, own) ==
    IF S = {} THEN 0
    ELSE LET i == CHOOSE x \in S : TRUE
             m == g.matches[i]
             mine == IF m.team_one = t THEN m.team_one_score ELSE m.team_two_score
             theirs == IF m.team_one = t THEN m.team_two_score ELSE m.team_one_score
         IN  (IF own THEN mine ELSE theirs) + GamesSum(g, t, S \ {i}, own)

WinsOf(g, t) ==
    Cardinality({i \in 1..Len(g.matches) :
        LET m == g.matches[i]
        IN  \/ m.team_one = t /\ m.team_one_score > m.team_two_score
            \/ m.team_two = t /\ m.team_two_score > m.team_one_score})

GamesFor(g, t) == GamesSum(g, t, MatchesOfTeam(g, t), TRUE)

GameDifference(g, t) == GamesFor(g, t) - GamesSum(g, t, MatchesOfTeam(g, t), FALSE)

\* Team a stands above team b
StandsAbove(g, a, b) ==
    LexLess(<<-WinsOf(g, a), -GamesFor(g, a), -GameDifference(g, a)>>
                \o g.daily_teams[a].name,
            <<-WinsOf(g, b), -GamesFor(g, b), -GameDifference(g, b)>>
                \o g.daily_teams[b].name)

\* The team with k - 1 teams above it, None when there is none
Placed(g, k) ==
    LET at == {t \in 1..Len(g.daily_teams) :
                  Cardinality({u \in 1..Len(g.daily_teams) : StandsAbove(g, u, t)})
                      = k - 1}
    IN  IF at = {} THEN None ELSE Only(at)

\* C37: finalize succeeds exactly on a guide that is not finished and has a
\* match; it then stores as champion, runner-up and third place the first
\* three teams by wins, games for and game difference, descending, then team
\* name: different teams, None where the guide has fewer teams; in every
\* other case it changes nothing.
C37_FinalizeStoresTheTopThree ==
    [][last'.op = "finalize" =>
          IF guide.finished_at = None /\ Len(guide.matches) >= 1
          THEN /\ last'.error = ""
               /\ guide'.finished_at # None
               /\ guide' = [guide EXCEPT !.champion = Placed(guide, 1),
                                         !.runner_up = Placed(guide, 2),
                                         !.third_place = Placed(guide, 3),
                                         !.finished_at = guide'.finished_at]
               /\ guide'.champion # None
               /\ guide'.runner_up \notin {None, guide'.champion}
               /\ guide'.third_place \notin {guide'.champion, guide'.runner_up}
               /\ guide'.third_place = None <=> Len(guide.daily_teams) < 3
          ELSE /\ last'.error # ""
               /\ guide' = guide
      ]_vars

\* Runner-up and third are level on wins; the runner-up has more games for
\* and the lower game difference.
C37_Witness ==
    /\ last.op = "finalize"
    /\ last.error = ""
    /\ guide.third_place # None
    /\ WinsOf(guide, guide.runner_up) = WinsOf(guide, guide.third_place)
    /\ GamesFor(guide, guide.runner_up) > GamesFor(guide, guide.third_place)
    /\ GameDifference(guide, guide.runner_up) < GameDifference(guide, guide.third_place)

====
